---- MODULE Spec2Model ----
(***************************************************************************)
(* A model of the kilo editor (final snapshot, src/unnamed/part_002):      *)
(* raw-mode terminal control, the key decoder, the row store, the          *)
(* viewport and the host loop.                                             *)
(*                                                                         *)
(* Bytes are the integers 0..255.  C arrays are 0-based and TLA+           *)
(* sequences 1-based: chars[j] of the source is chars[j + 1] here.         *)
(*                                                                         *)
(* Three specifications share the variables:                               *)
(*   Spec     the process: main, the host loop and every exit path;        *)
(*   SpecKey  editorReadKey alone, on a stream of read(2) results;         *)
(*   SpecRow  the row operations alone, on one row.                        *)
(***************************************************************************)
EXTENDS Integers, Sequences, FiniteSets, TLC

VARIABLES
  pc,             \* where the process is: "main", "initEditor", "editorOpen",
                  \* "setStatus", "refresh", "readkey"; or how it ended:
                  \* "exited" (exit(3) returned control to the system),
                  \* "hung" (it never returns), "killed" (a memory fault)
  term,           \* the terminal's line-discipline configuration (the tty's own)
  orig_termios,   \* E.orig_termios
  atexit,         \* whether disableRawMode is registered with atexit(3)
  log,            \* what the exit paths did, in order
  status,         \* the exit status; -1 while there is none
  argc, file,     \* the command line: argc, and the file argv[1] names
  cx, cy, rx,     \* E.cx, E.cy, E.rx
  rowoff, coloff, \* E.rowoff, E.coloff
  screenrows, screencols,   \* E.screenrows, E.screencols
  row,            \* E.row; E.numrows is its length
  filename,       \* E.filename, its bytes (<<>> for NULL)
  statusmsg, statusmsg_time,  \* E.statusmsg (its bytes), E.statusmsg_time
  out,            \* the write(2) calls on stdout of the last step, each the
                  \* sequence of items written
  now,            \* the wall clock, time(NULL)
  edits,          \* how many calls of editorInsertChar there were
  lastkey,        \* the key the last editorProcessKeypress read
  stream,         \* SpecKey: the read(2) results still to come
  kin,            \* SpecKey: the stream as the last call of editorReadKey found it
  kres,           \* SpecKey: what that call returned
  typed,          \* SpecTyped: the key events dispatched so far
  rrow,           \* SpecRow: the row
  rop,            \* SpecRow: the last operation on it
  winq            \* SpecWin: what the system calls of the window size query
                  \* return; the reply to come is in stream

procvars == <<pc, term, orig_termios, atexit, log, status, out>>
edvars   == <<argc, file, cx, cy, rx, rowoff, coloff, screenrows, screencols,
              row, filename, statusmsg, statusmsg_time, now, edits, lastkey>>
keyvars  == <<stream, kin, kres, typed>>
rowvars  == <<rrow, rop>>
vars     == <<procvars, edvars, keyvars, rowvars, winq>>

(***************************************************************************)
(* Bounds of the model.                                                    *)
(***************************************************************************)
MaxEdits   == 1   \* insertions in one run of Spec
MaxWinRows == 3   \* the tallest window the size query reports
MaxWinCols == 2   \* the widest window the size query reports
MaxPast    == 1   \* how far past its valid range the cursor is followed
MaxRowLen  == 5   \* SpecRow: the longest row

(***************************************************************************)
(* Program constants.                                                      *)
(***************************************************************************)
KILO_TAB_STOP == 4
ARROW_LEFT  == 1000
ARROW_RIGHT == 1001
ARROW_UP    == 1002
ARROW_DOWN  == 1003
DEL_KEY     == 1004
HOME_KEY    == 1005
END_KEY     == 1006
PAGE_UP     == 1007
PAGE_DOWN   == 1008
CTRL_Q      == 17     \* CTRL_KEY('q') = 'q' & 0x1f
ESC         == 27     \* '\x1b'
TAB         == 9      \* '\t'
SeqLen      == 3      \* char seq[3]: the reads that follow ESC

\* The bytes the source names, by their character.
Chr(s) ==
  CASE s = "[" -> 91 [] s = "O" -> 79 [] s = "~" -> 126 [] s = ";" -> 59
    [] s = "0" -> 48 [] s = "1" -> 49 [] s = "2" -> 50 [] s = "3" -> 51
    [] s = "4" -> 52 [] s = "5" -> 53 [] s = "6" -> 54 [] s = "7" -> 55
    [] s = "8" -> 56 [] s = "9" -> 57
    [] s = "A" -> 65 [] s = "B" -> 66 [] s = "C" -> 67 [] s = "D" -> 68
    [] s = "F" -> 70 [] s = "H" -> 72 [] s = "R" -> 82 [] s = "Z" -> 90
    [] s = "a" -> 97 [] s = "b" -> 98 [] s = "c" -> 99 [] s = "x" -> 120
    [] s = "\n" -> 10 [] s = "\r" -> 13 [] s = " " -> 32
    [] s = "-" -> 45 [] s = "." -> 46 [] s = "/" -> 47 [] s = ":" -> 58
    [] s = "=" -> 61 [] s = "]" -> 93
    [] s = "E" -> 69 [] s = "K" -> 75 [] s = "L" -> 76 [] s = "N" -> 78
    [] s = "P" -> 80 [] s = "Q" -> 81
    [] s = "d" -> 100 [] s = "e" -> 101 [] s = "f" -> 102 [] s = "i" -> 105
    [] s = "l" -> 108 [] s = "m" -> 109 [] s = "n" -> 110 [] s = "o" -> 111
    [] s = "p" -> 112 [] s = "q" -> 113 [] s = "r" -> 114 [] s = "s" -> 115
    [] s = "t" -> 116 [] s = "u" -> 117 [] s = "v" -> 118 [] s = "y" -> 121

\* The bytes of a string literal of the source.
Bytes(str) == [i \in 1..Len(str) |-> Chr(SubSeq(str, i, i))]

(***************************************************************************)
(* The terminal.  A termios value is its four flag words, as sets of the   *)
(* flags that are on, and the two control characters the editor sets.      *)
(* The character size is the two bits of CSIZE: CS8 is both.               *)
(***************************************************************************)
CS8 == {"CSIZE0", "CSIZE1"}

\* What a shell leaves: an 8-bit cooked terminal, and a 7-bit one with parity.
Cooked8 == [iflag |-> {"BRKINT", "ICRNL", "IXON"},
            oflag |-> {"OPOST", "ONLCR"},
            cflag |-> {"CREAD", "CSIZE0", "CSIZE1"},
            lflag |-> {"ECHO", "ICANON", "IEXTEN", "ISIG", "ECHOE"},
            vmin |-> 1, vtime |-> 0]
Cooked7 == [iflag |-> {"ICRNL", "INPCK", "ISTRIP", "IXON"},
            oflag |-> {"OPOST"},
            cflag |-> {"CREAD", "CSIZE1", "PARENB"},
            lflag |-> {"ECHO", "ICANON", "ISIG"},
            vmin |-> 1, vtime |-> 0]
Terminals == {Cooked8, Cooked7}

\* E is a global: zero until tcgetattr fills it.
ZeroTermios == [iflag |-> {}, oflag |-> {}, cflag |-> {}, lflag |-> {},
                vmin |-> 0, vtime |-> 0]

\* The configuration enableRawMode builds from the captured one.
RawOf(t) ==
  [iflag |-> t.iflag \ {"BRKINT", "ICRNL", "INPCK", "ISTRIP", "IXON"},
   oflag |-> t.oflag \ {"OPOST"},
   cflag |-> t.cflag \cup CS8,
   lflag |-> t.lflag \ {"ECHO", "ICANON", "IEXTEN", "ISIG"},
   vmin |-> 0, vtime |-> 1]

(***************************************************************************)
(* exit(3) and die.  An outcome is the process state an exit path ends in. *)
(*   ok: whether disableRawMode's tcsetattr succeeds;                      *)
(*   ub: what exit(3) does when die calls it a second time from inside    *)
(*       the handler, which C leaves undefined: "exit" (the remaining     *)
(*       handlers run and the process ends) or "hang".                    *)
(***************************************************************************)
\* An event of the log; perror carries the name die was given.
\* What is written on stdout, item by item: a control sequence, by name
\* ("hide" ESC[?25l, "show" ESC[?25h, "home" ESC[H, "clear" ESC[2J, "el" ESC[K,
\* "sgr7" ESC[7m, "sgr0" ESC[m, "crlf", "corner" ESC[999C ESC[999B, "dsr"
\* ESC[6n), a text, or a cursor position ESC[r;cH with its two numbers.
Tok(t)    == [t |-> t, s |-> <<>>, r |-> 0, c |-> 0]
Text(s)   == [t |-> "text", s |-> s, r |-> 0, c |-> 0]
Cup(r, c) == [t |-> "cup", s |-> <<>>, r |-> r, c |-> c]

Ev(e)     == [ev |-> e, arg |-> ""]
Perror(s) == [ev |-> "perror", arg |-> s]

\* die's three outputs: clear the screen, home the cursor, perror(s).
DieLog(s) == <<Ev("clear"), Ev("home"), Perror(s)>>

\* disableRawMode, run by exit(3) as the registered handler.
disableRawMode(st, t, orig, lg, ok, ub) ==
  IF ok
  THEN [pc |-> "exited", status |-> st, term |-> orig,
        log |-> lg \o <<Ev("restored"), Ev("exit")>>]
  ELSE LET lg2 == lg \o <<Ev("restore failed")>> \o DieLog("tcsetattr")
       IN IF ub = "exit"
          THEN [pc |-> "exited", status |-> 1, term |-> t, log |-> lg2 \o <<Ev("exit")>>]
          ELSE [pc |-> "hung", status |-> -1, term |-> t, log |-> lg2]

\* Mutant of Exit: the process ends as _exit(2) ends it, running no handler.
ExitNoHandlers(st, t, orig, reg, lg, ok, ub) ==
  [pc |-> "exited", status |-> st, term |-> t, log |-> lg \o <<Ev("exit")>>]

\* exit(st): the handlers registered with atexit, then the end of the process.
Exit(st, t, orig, reg, lg, ok, ub) ==
  IF reg
  THEN disableRawMode(st, t, orig, lg, ok, ub)
  ELSE [pc |-> "exited", status |-> st, term |-> t, log |-> lg \o <<Ev("exit")>>]

\* Mutant of die: the terminal is restored first, and the report follows.
dieRestoresFirst(s, t, orig, reg, lg, ok, ub) ==
  IF reg /\ ok
  THEN [pc |-> "exited", status |-> 1, term |-> orig,
        log |-> lg \o <<Ev("restored")>> \o DieLog(s) \o <<Ev("exit")>>]
  ELSE Exit(1, t, orig, reg, lg \o DieLog(s), ok, ub)

die(s, t, orig, reg, lg, ok, ub) ==
  Exit(1, t, orig, reg, lg \o DieLog(s), ok, ub)

\* What an exit path wrote on stdout: the screen writes among the events lg,
\* each a write(2) of its own.
IsScreenWrite(e) == e.ev \in {"clear", "home"}
ExitWrites(lg) ==
  LET ws == SelectSeq(lg, IsScreenWrite)
  IN [i \in 1..Len(ws) |-> <<Tok(ws[i].ev)>>]

\* The events the outcome o adds to the log.
Added(o) == SubSeq(o.log, Len(log) + 1, Len(o.log))

\* The process ends as the outcome o says, after the writes w of the step.
EndsAfter(w, o) ==
  /\ pc' = o.pc
  /\ status' = o.status
  /\ term' = o.term
  /\ log' = o.log
  /\ out' = w \o ExitWrites(Added(o))

\* The process ends as the outcome o says.
Ends(o) == EndsAfter(<<>>, o)

ExitUB == {"exit", "hang"}

(***************************************************************************)
(* read(2) on the terminal: one byte (n = 1), nothing within the timeout   *)
(* (n = 0), or an error (n = -1, with errno).                              *)
(***************************************************************************)
EAGAIN == 11
EIO    == 5
Byte(b)   == [n |-> 1, c |-> b, errno |-> 0]
Timeout   == [n |-> 0, c |-> 0, errno |-> 0]
Fails(e)  == [n |-> -1, c |-> 0, errno |-> e]

\* The i-th read of a stream; a stream that has run out has nothing to give.
Rd(s, i) == IF i <= Len(s) THEN s[i] ELSE Timeout

\* The value of a char that holds byte b, where char is signed or not.
CharVal(b, sgn) == IF sgn /\ b >= 128 THEN b - 256 ELSE b

\* The byte a char assigned from the int c holds.
ToByte(c) == c % 256

\* Mutant of TildeKey: the cases of '7' and '8' are exchanged.
TildeKeyExchanged(d) ==
  CASE d = Chr("1") -> HOME_KEY
    [] d = Chr("3") -> DEL_KEY
    [] d = Chr("4") -> END_KEY
    [] d = Chr("5") -> PAGE_UP
    [] d = Chr("6") -> PAGE_DOWN
    [] d = Chr("7") -> END_KEY
    [] d = Chr("8") -> HOME_KEY
    [] OTHER -> ESC

\* ESC [ <digit> ~
TildeKey(d) ==
  CASE d = Chr("1") -> HOME_KEY
    [] d = Chr("3") -> DEL_KEY
    [] d = Chr("4") -> END_KEY
    [] d = Chr("5") -> PAGE_UP
    [] d = Chr("6") -> PAGE_DOWN
    [] d = Chr("7") -> HOME_KEY
    [] d = Chr("8") -> END_KEY
    [] OTHER -> ESC

\* ESC [ <letter>
BracketKey(l) ==
  CASE l = Chr("A") -> ARROW_UP
    [] l = Chr("B") -> ARROW_DOWN
    [] l = Chr("C") -> ARROW_RIGHT
    [] l = Chr("D") -> ARROW_LEFT
    [] l = Chr("H") -> HOME_KEY
    [] l = Chr("F") -> END_KEY
    [] OTHER -> ESC

\* ESC O <letter>
OKey(l) ==
  CASE l = Chr("H") -> HOME_KEY
    [] l = Chr("F") -> END_KEY
    [] OTHER -> ESC

\* What follows ESC: up to three more reads, s[2..4].  reads counts the
\* read(2) calls made, the first one included.
EscapeKey(s) ==
  IF Rd(s, 2).n # 1 THEN [key |-> ESC, reads |-> 2]
  ELSE IF Rd(s, 3).n # 1 THEN [key |-> ESC, reads |-> 3]
  ELSE LET s0 == Rd(s, 2).c
           s1 == Rd(s, 3).c
       IN IF s0 = Chr("[")
          THEN IF s1 >= Chr("0") /\ s1 <= Chr("9")
               THEN IF Rd(s, 4).n # 1 THEN [key |-> ESC, reads |-> 4]
                    ELSE IF Rd(s, 4).c = Chr("~")
                         THEN [key |-> TildeKey(s1), reads |-> 4]
                         ELSE [key |-> ESC, reads |-> 4]
               ELSE [key |-> BracketKey(s1), reads |-> 3]
          ELSE IF s0 = Chr("O")
               THEN [key |-> OKey(s1), reads |-> 3]
               ELSE [key |-> ESC, reads |-> 3]

\* Mutant of editorReadKey: a read after ESC that times out is made again, as
\* the first read is.
editorReadKeyWaits(s, sgn) ==
  IF s[1].c = ESC
  THEN IF Rd(s, 2).n = 0 /\ Len(s) > 2
       THEN LET r == EscapeKey(<<s[1]>> \o SubSeq(s, 3, Len(s)))
            IN [key |-> r.key, reads |-> r.reads + 1]
       ELSE EscapeKey(s)
  ELSE [key |-> CharVal(s[1].c, sgn), reads |-> 1]

\* Mutant of editorReadKey: only two bytes are read after ESC, as before the
\* sequences that end in '~' were handled.
editorReadKeyTwoBytes(s, sgn) ==
  IF s[1].c = ESC
  THEN IF Rd(s, 2).n # 1 THEN [key |-> ESC, reads |-> 2]
       ELSE IF Rd(s, 3).n # 1 THEN [key |-> ESC, reads |-> 3]
       ELSE IF Rd(s, 2).c = Chr("[") THEN [key |-> BracketKey(Rd(s, 3).c), reads |-> 3]
       ELSE IF Rd(s, 2).c = Chr("O") THEN [key |-> OKey(Rd(s, 3).c), reads |-> 3]
       ELSE [key |-> ESC, reads |-> 3]
  ELSE [key |-> CharVal(s[1].c, sgn), reads |-> 1]

\* Mutant of editorReadKey: the bytes read after an ESC that starts no
\* sequence are left in the input.
editorReadKeyUnread(s, sgn) ==
  IF s[1].c = ESC
  THEN IF EscapeKey(s).key = ESC THEN [key |-> ESC, reads |-> 1] ELSE EscapeKey(s)
  ELSE [key |-> CharVal(s[1].c, sgn), reads |-> 1]

\* editorReadKey once its first read has delivered a byte: s[1] is that read.
editorReadKey(s, sgn) ==
  IF s[1].c = ESC
  THEN EscapeKey(s)
  ELSE [key |-> CharVal(s[1].c, sgn), reads |-> 1]

\* The first read of editorReadKey: is this result fatal, and is it retried.
FirstReadDies(r)    == r.n = -1 /\ r.errno # EAGAIN
FirstReadRetries(r) == r.n # 1 /\ ~FirstReadDies(r)

(***************************************************************************)
(* Row operations.  A row is [size, rsize, chars, render]; chars and       *)
(* render are kept without their terminating 0 byte.                       *)
(***************************************************************************)
\* chars[j] as the C code reads it: the row's bytes, the terminating 0 at
\* j = size, and past that whatever the heap holds (g).
CharAt(rw, j, g) ==
  IF j < rw.size THEN rw.chars[j + 1] ELSE IF j = rw.size THEN 0 ELSE g

\* Mutant of CxToRxLoop: a tab moves to the stop and is not counted itself.
RECURSIVE CxToRxLoopTabUncounted(_, _, _, _, _)
CxToRxLoopTabUncounted(rw, x, j, rx0, g) ==
  IF j >= x THEN rx0
  ELSE IF CharAt(rw, j, g) = TAB
       THEN CxToRxLoopTabUncounted(rw, x, j + 1,
              rx0 + (KILO_TAB_STOP - 1) - (rx0 % KILO_TAB_STOP), g)
       ELSE CxToRxLoopTabUncounted(rw, x, j + 1, rx0 + 1, g)

RECURSIVE CxToRxLoop(_, _, _, _, _)
CxToRxLoop(rw, x, j, rx0, g) ==
  IF j >= x THEN rx0
  ELSE LET r1 == IF CharAt(rw, j, g) = TAB
                 THEN rx0 + (KILO_TAB_STOP - 1) - (rx0 % KILO_TAB_STOP)
                 ELSE rx0
       IN CxToRxLoop(rw, x, j + 1, r1 + 1, g)

\* editorRowCxToRx; g stands for the bytes it reads past the row's buffer.
editorRowCxToRxG(rw, x, g) == CxToRxLoop(rw, x, 0, 0, g)
editorRowCxToRx(rw, x) == editorRowCxToRxG(rw, x, 0)

\* editorRowCxToRx reads past the size + 1 bytes of chars.
CxToRxOutOfBounds(rw, x) == x > rw.size + 1

\* Mutant of PadToStop: a tab is KILO_TAB_STOP spaces wherever it stands.
PadFixedWidth(rnd) ==
  rnd \o [i \in 1..(KILO_TAB_STOP - 1) |-> Chr(" ")]

\* while (idx % KILO_TAB_STOP != 0) render[idx++] = ' '
RECURSIVE PadToStop(_)
PadToStop(rnd) ==
  IF Len(rnd) % KILO_TAB_STOP # 0 THEN PadToStop(Append(rnd, Chr(" "))) ELSE rnd

\* Mutant of RenderLoop: a tab is rendered as one space.
RECURSIVE RenderLoopOneSpace(_, _, _)
RenderLoopOneSpace(chars, j, acc) ==
  IF j >= Len(chars) THEN acc
  ELSE RenderLoopOneSpace(chars, j + 1,
         Append(acc, IF chars[j + 1] = TAB THEN Chr(" ") ELSE chars[j + 1]))

RECURSIVE RenderLoop(_, _, _)
RenderLoop(chars, j, rnd) ==
  IF j >= Len(chars) THEN rnd
  ELSE IF chars[j + 1] = TAB
       THEN RenderLoop(chars, j + 1, PadToStop(Append(rnd, Chr(" "))))
       ELSE RenderLoop(chars, j + 1, Append(rnd, chars[j + 1]))

editorUpdateRow(rw) ==
  LET rnd == RenderLoop(rw.chars, 0, <<>>)
  IN [rw EXCEPT !.render = rnd, !.rsize = Len(rnd)]

\* The row editorAppendRow adds for the bytes s.
NewRow(s) ==
  editorUpdateRow([size |-> Len(s), rsize |-> 0, chars |-> s, render |-> <<>>])

\* Mutant of editorAppendRow: the new row becomes the first row.
editorAppendRowAtFront(rows, s) == <<NewRow(s)>> \o rows

editorAppendRow(rows, s) == Append(rows, NewRow(s))

\* Mutant of editorRowInsertChar: a column out of range is taken for column 0.
editorRowInsertCharAtStart(rw, at0, c) ==
  LET at == IF at0 < 0 \/ at0 > rw.size THEN 0 ELSE at0
  IN editorUpdateRow(
       [rw EXCEPT !.chars = SubSeq(rw.chars, 1, at) \o <<ToByte(c)>>
                              \o SubSeq(rw.chars, at + 1, rw.size),
                  !.size = rw.size + 1])

\* Mutant of editorRowInsertChar: render is not derived again.
editorRowInsertCharStale(rw, at0, c) ==
  LET at == IF at0 < 0 \/ at0 > rw.size THEN rw.size ELSE at0
  IN [rw EXCEPT !.chars = SubSeq(rw.chars, 1, at) \o <<ToByte(c)>>
                              \o SubSeq(rw.chars, at + 1, rw.size),
                !.size = rw.size + 1]

editorRowInsertChar(rw, at0, c) ==
  LET at == IF at0 < 0 \/ at0 > rw.size THEN rw.size ELSE at0
  IN editorUpdateRow(
       [rw EXCEPT !.chars = SubSeq(rw.chars, 1, at) \o <<ToByte(c)>>
                              \o SubSeq(rw.chars, at + 1, rw.size),
                  !.size = rw.size + 1])

(***************************************************************************)
(* Editor operations, on the document rows and the cursor c = [cx, cy].    *)
(***************************************************************************)
numrows == Len(row)

\* editorInsertChar indexes E.row past its end.
InsertOutOfBounds(rows, c) == c.cy > Len(rows)

\* editorInsertChar, where E.row[E.cy] exists or is appended.
editorInsertChar(rows, c, ch) ==
  LET rows1 == IF c.cy = Len(rows) THEN editorAppendRow(rows, <<>>) ELSE rows
  IN [row |-> [rows1 EXCEPT ![c.cy + 1] = editorRowInsertChar(@, c.cx, ch)],
      cx  |-> c.cx + 1]

\* ARROW_LEFT at column 0 reads E.row[E.cy].size of a row that is not there.
MoveOutOfBounds(key, rows, c) ==
  key = ARROW_LEFT /\ c.cx = 0 /\ c.cy > 0 /\ c.cy - 1 >= Len(rows)

\* Mutant of MoveStep: ARROW_LEFT stops at column 0.
MoveStepLeftStops(key, rows, c, g) ==
  LET hasrow == c.cy < Len(rows)
  IN CASE key = ARROW_LEFT ->
            IF c.cx # 0 THEN [c EXCEPT !.cx = c.cx - 1] ELSE c
       [] key = ARROW_RIGHT ->
            IF hasrow /\ c.cx < rows[c.cy + 1].size THEN [c EXCEPT !.cx = c.cx + 1]
            ELSE IF hasrow /\ c.cx = rows[c.cy + 1].size
                 THEN [cy |-> c.cy + 1, cx |-> 0]
                 ELSE c
       [] key = ARROW_UP ->
            IF c.cy # 0 THEN [c EXCEPT !.cy = c.cy - 1] ELSE c
       [] key = ARROW_DOWN ->
            IF c.cy < Len(rows) THEN [c EXCEPT !.cy = c.cy + 1] ELSE c
       [] OTHER -> c

\* Mutant of MoveStep: ARROW_RIGHT stops at the end of the last row.
MoveStepRightStopsAtLastRow(key, rows, c, g) ==
  LET hasrow == c.cy < Len(rows)
  IN CASE key = ARROW_LEFT ->
            IF c.cx # 0 THEN [c EXCEPT !.cx = c.cx - 1]
            ELSE IF c.cy > 0
                 THEN [cy |-> c.cy - 1,
                       cx |-> IF c.cy - 1 < Len(rows) THEN rows[c.cy].size ELSE g]
                 ELSE c
       [] key = ARROW_RIGHT ->
            IF hasrow /\ c.cx < rows[c.cy + 1].size THEN [c EXCEPT !.cx = c.cx + 1]
            ELSE IF hasrow /\ c.cx = rows[c.cy + 1].size /\ c.cy + 1 < Len(rows)
                 THEN [cy |-> c.cy + 1, cx |-> 0]
                 ELSE c
       [] key = ARROW_UP ->
            IF c.cy # 0 THEN [c EXCEPT !.cy = c.cy - 1] ELSE c
       [] key = ARROW_DOWN ->
            IF c.cy < Len(rows) THEN [c EXCEPT !.cy = c.cy + 1] ELSE c
       [] OTHER -> c

\* The switch of editorMoveCursor; g is what an out-of-bounds read yields.
MoveStep(key, rows, c, g) ==
  LET hasrow == c.cy < Len(rows)
  IN CASE key = ARROW_LEFT ->
            IF c.cx # 0 THEN [c EXCEPT !.cx = c.cx - 1]
            ELSE IF c.cy > 0
                 THEN [cy |-> c.cy - 1,
                       cx |-> IF c.cy - 1 < Len(rows) THEN rows[c.cy].size ELSE g]
                 ELSE c
       [] key = ARROW_RIGHT ->
            IF hasrow /\ c.cx < rows[c.cy + 1].size THEN [c EXCEPT !.cx = c.cx + 1]
            ELSE IF hasrow /\ c.cx = rows[c.cy + 1].size
                 THEN [cy |-> c.cy + 1, cx |-> 0]
                 ELSE c
       [] key = ARROW_UP ->
            IF c.cy # 0 THEN [c EXCEPT !.cy = c.cy - 1] ELSE c
       [] key = ARROW_DOWN ->
            IF c.cy < Len(rows) THEN [c EXCEPT !.cy = c.cy + 1] ELSE c
       [] OTHER -> c

\* Mutant of SnapCx: the column is kept as it is.
SnapCxKept(rows, c) == c

\* The end of editorMoveCursor: snap the column to the row's length.
SnapCx(rows, c) ==
  LET rowlen == IF c.cy >= Len(rows) THEN 0 ELSE rows[c.cy + 1].size
  IN IF c.cx > rowlen THEN [c EXCEPT !.cx = rowlen] ELSE c

editorMoveCursorG(key, rows, c, g) == SnapCx(rows, MoveStep(key, rows, c, g))
editorMoveCursor(key, rows, c) == editorMoveCursorG(key, rows, c, 0)

\* while (times--) editorMoveCursor(key), for times >= 0.
RECURSIVE MoveTimes(_, _, _, _)
MoveTimes(key, rows, c, times) ==
  IF times <= 0 THEN c
  ELSE MoveTimes(key, rows, editorMoveCursor(key, rows, c), times - 1)

\* Where PAGE_UP and PAGE_DOWN put the cursor before the single steps.
PageStart(key, rows, c, roff, srows) ==
  IF key = PAGE_UP THEN [c EXCEPT !.cy = roff]
  ELSE LET y == roff + srows - 1
       IN [c EXCEPT !.cy = IF y > Len(rows) THEN Len(rows) ELSE y]

\* PAGE_UP and PAGE_DOWN.  With times < 0 the loop counts down through
\* INT_MIN: some 2^32 steps, which is as many as it takes to stop moving.
PageMove(key, rows, c, roff, srows) ==
  LET c0  == PageStart(key, rows, c, roff, srows)
      dir == IF key = PAGE_UP THEN ARROW_UP ELSE ARROW_DOWN
      n   == IF srows < 0 THEN c0.cy + Len(rows) + 1 ELSE srows
  IN MoveTimes(dir, rows, c0, n)

\* times-- overflows an int (undefined) when the loop starts below zero: the
\* count wraps around and the loop ends, or the loop is compiled as endless.
PageOverflows(srows) == srows < 0
OverflowUB == {"wrap", "hang"}

(***************************************************************************)
(* The viewport.                                                           *)
(***************************************************************************)
\* Mutant of editorScrollG: the window is moved so that the cursor is in its
\* first row and first column.
editorScrollGCursorFirst(rows, v, srows, scols, g) ==
  LET rx1 == IF v.cy < Len(rows) THEN editorRowCxToRxG(rows[v.cy + 1], v.cx, g) ELSE 0
  IN [rx |-> rx1, rowoff |-> v.cy, coloff |-> rx1]

\* editorScroll on v = [cx, cy, rx, rowoff, coloff]; gives the new rx and offsets.
editorScrollG(rows, v, srows, scols, g) ==
  LET rx1 == IF v.cy < Len(rows) THEN editorRowCxToRxG(rows[v.cy + 1], v.cx, g) ELSE 0
      ro1 == IF v.cy < v.rowoff THEN v.cy ELSE v.rowoff
      ro2 == IF v.cy >= ro1 + srows THEN v.cy - srows + 1 ELSE ro1
      co1 == IF rx1 < v.coloff THEN rx1 ELSE v.coloff
      co2 == IF rx1 >= co1 + scols THEN rx1 - scols + 1 ELSE co1
  IN [rx |-> rx1, rowoff |-> ro2, coloff |-> co2]

\* Mutant of editorScroll: the window follows the cursor down and right only.
editorScrollDownOnly(rows, v, srows, scols) ==
  LET rx1 == IF v.cy < Len(rows) THEN editorRowCxToRx(rows[v.cy + 1], v.cx) ELSE 0
  IN [rx |-> rx1,
      rowoff |-> IF v.cy >= v.rowoff + srows THEN v.cy - srows + 1 ELSE v.rowoff,
      coloff |-> IF rx1 >= v.coloff + scols THEN rx1 - scols + 1 ELSE v.coloff]

editorScroll(rows, v, srows, scols) == editorScrollG(rows, v, srows, scols, 0)

\* editorScroll's call of editorRowCxToRx reads out of bounds.
ScrollOutOfBounds(rows, v) ==
  v.cy < Len(rows) /\ CxToRxOutOfBounds(rows[v.cy + 1], v.cx)

(***************************************************************************)
(* The window size query.                                                  *)
(***************************************************************************)
IsDigit(b) == b >= Chr("0") /\ b <= Chr("9")

\* How many digits the bytes s start with, from index i.
RECURSIVE DigitRun(_, _)
DigitRun(s, i) == IF i <= Len(s) /\ IsDigit(s[i]) THEN 1 + DigitRun(s, i + 1) ELSE 0

\* The decimal value of s[i .. i + n - 1].
RECURSIVE DigitsValue(_, _, _)
DigitsValue(s, i, n) ==
  IF n = 0 THEN 0 ELSE 10 * DigitsValue(s, i, n - 1) + (s[i + n - 1] - Chr("0"))

\* sscanf(s, "%d;%d", rows, cols): the number of conversions, and their values.
ScanTwoInts(s) ==
  LET n1 == DigitRun(s, 1)
      n2 == DigitRun(s, n1 + 2)
  IN IF n1 = 0 THEN [n |-> 0, rows |-> 0, cols |-> 0]
     ELSE IF ~(n1 + 1 <= Len(s) /\ s[n1 + 1] = Chr(";")) \/ n2 = 0
          THEN [n |-> 1, rows |-> DigitsValue(s, 1, n1), cols |-> 0]
          ELSE [n |-> 2, rows |-> DigitsValue(s, 1, n1),
                cols |-> DigitsValue(s, n1 + 2, n2)]

\* The loop of getCursorPosition: the bytes read before 'R', a failed read or
\* the end of buf.
RECURSIVE ReplyBuf(_, _)
ReplyBuf(reply, i) ==
  IF i >= 31 \/ Rd(reply, i + 1).n # 1 \/ Rd(reply, i + 1).c = Chr("R") THEN <<>>
  ELSE <<Rd(reply, i + 1).c>> \o ReplyBuf(reply, i + 1)

\* getCursorPosition: w is what write(2) of the query returns, reply the
\* read(2) results that follow.
getCursorPosition(w, reply) ==
  LET buf == ReplyBuf(reply, 0)
      b0  == IF Len(buf) >= 1 THEN buf[1] ELSE 0
      b1  == IF Len(buf) >= 2 THEN buf[2] ELSE 0
      sc  == ScanTwoInts(SubSeq(buf, 3, Len(buf)))
  IN IF w # 4 THEN [ret |-> -1, rows |-> 0, cols |-> 0]
     ELSE IF b0 # ESC \/ b1 # Chr("[") THEN [ret |-> -1, rows |-> 0, cols |-> 0]
     ELSE IF sc.n # 2 THEN [ret |-> -1, rows |-> sc.rows, cols |-> 0]
     ELSE [ret |-> 0, rows |-> sc.rows, cols |-> sc.cols]

\* Mutant of getWindowSize: a window of zero columns is taken as it is.
getWindowSizeZeroColumns(io, w1, w2, reply) ==
  IF io.ret = -1
  THEN IF w1 # 12 THEN [ret |-> -1, rows |-> 0, cols |-> 0]
       ELSE getCursorPosition(w2, reply)
  ELSE [ret |-> 0, rows |-> io.ws_row, cols |-> io.ws_col]

\* getWindowSize: io is what ioctl(TIOCGWINSZ) gives, w1 and w2 what the two
\* write(2) calls of the fallback return.
getWindowSize(io, w1, w2, reply) ==
  IF io.ret = -1 \/ io.ws_col = 0
  THEN IF w1 # 12 THEN [ret |-> -1, rows |-> 0, cols |-> 0]
       ELSE getCursorPosition(w2, reply)
  ELSE [ret |-> 0, rows |-> io.ws_row, cols |-> io.ws_col]

\* The windows the terminal has.
WinRows == 1..MaxWinRows
WinCols == 1..MaxWinCols

IoctlResults ==
  {[ret |-> -1, ws_row |-> 0, ws_col |-> 0]} \cup
  {[ret |-> 0, ws_row |-> r, ws_col |-> c] : r \in WinRows, c \in {0} \cup WinCols}

Digit(n) == Chr("0") + n

\* The cursor position report of a terminal whose corner is (r, c).
Report(r, c) ==
  <<Byte(ESC), Byte(Chr("[")), Byte(Digit(r)), Byte(Chr(";")), Byte(Digit(c)),
    Byte(Chr("R"))>>

CprReplies ==
  {Report(r, c) : r \in WinRows, c \in WinCols} \cup
  { <<>>,                                                       \* no reply
    <<Fails(EIO)>>,
    <<Byte(Chr("x"))>>,
    <<Byte(ESC), Byte(Chr("O")), Byte(Chr("3")), Byte(Chr(";")), Byte(Chr("2")),
      Byte(Chr("R"))>>,
    <<Byte(ESC), Byte(Chr("[")), Byte(Chr("3")), Byte(Chr("R"))>>,
    <<Byte(ESC), Byte(Chr("[")), Byte(Chr(";")), Byte(Chr("2")), Byte(Chr("R"))>>,
    <<Byte(ESC), Byte(Chr("[")), Byte(Chr("3")), Byte(Chr(";")), Byte(Chr("2"))>> }

(***************************************************************************)
(* File input.                                                             *)
(***************************************************************************)
\* getline(3) over the bytes of a file: the lines, each with its '\n' if it
\* has one.
RECURSIVE GetLines(_, _)
GetLines(bytes, cur) ==
  IF bytes = <<>> THEN (IF cur = <<>> THEN <<>> ELSE <<cur>>)
  ELSE IF Head(bytes) = Chr("\n")
       THEN <<Append(cur, Head(bytes))>> \o GetLines(Tail(bytes), <<>>)
       ELSE GetLines(Tail(bytes), Append(cur, Head(bytes)))

\* Mutant of StripEol: one line end is removed, "\n", "\r" or "\r\n".
StripEolOnce(line) ==
  LET n  == Len(line)
      n1 == IF n > 0 /\ line[n] = Chr("\n") THEN n - 1 ELSE n
      n2 == IF n1 > 0 /\ line[n1] = Chr("\r") THEN n1 - 1 ELSE n1
  IN SubSeq(line, 1, n2)

\* while (linelen > 0 && (line[linelen - 1] == '\n' || '\r')) linelen--
RECURSIVE StripEol(_)
StripEol(line) ==
  IF Len(line) > 0 /\ line[Len(line)] \in {Chr("\n"), Chr("\r")}
  THEN StripEol(SubSeq(line, 1, Len(line) - 1))
  ELSE line

RECURSIVE AppendLines(_, _)
AppendLines(rows, lines) ==
  IF lines = <<>> THEN rows
  ELSE AppendLines(editorAppendRow(rows, StripEol(Head(lines))), Tail(lines))

\* The rows editorOpen leaves for a file of these bytes.
editorOpen(rows, bytes) == AppendLines(rows, GetLines(bytes, <<>>))

\* The files of the model: "abc\n\tx\n\n", "a\rb\r\r\n\tb" and an empty one.
FileABC  == [name |-> Bytes("abc.txt"),
             bytes |-> <<97, 98, 99, 10, 9, 120, 10, 10>>]
FileCRLF == [name |-> Bytes("crlf.txt"),
             bytes |-> <<97, 13, 98, 13, 13, 10, 9, 98>>]
FileEmpty == [name |-> Bytes("empty.txt"), bytes |-> <<>>]
NoFile   == [name |-> <<>>, bytes |-> <<>>]
\* The same lines under a name of 22 bytes, which "%.20s" cuts.
FileLong == [name |-> Bytes("a-file-of-22-bytes.txt"), bytes |-> FileABC.bytes]
Files    == {FileABC, FileCRLF, FileEmpty}

(***************************************************************************)
(* The frame: what editorRefreshScreen appends to its buffer, item by      *)
(* item.  The text of one screen line, of the status bar and of the        *)
(* message bar is one item each.                                           *)
(***************************************************************************)
KILO_VERSION == "0.0.1"
Welcome      == Bytes("Kilo editor -- version ") \o Bytes(KILO_VERSION)
NoName       == Bytes("[No Name]")
StatusDash   == Bytes(" - ")
StatusLines  == Bytes(" lines")
HelpMessage  == Bytes("HELP: Ctrl-Q = quit")

\* The first n bytes of s, all of s if it has fewer.
Take(s, n) == SubSeq(s, 1, IF n < Len(s) THEN n ELSE Len(s))

Pad(n) == [i \in 1..n |-> Chr(" ")]

\* printf's %d.
RECURSIVE DecimalDigits(_)
DecimalDigits(n) ==
  IF n < 10 THEN <<Digit(n)>>
  ELSE Append(DecimalDigits(n \div 10), Digit(n % 10))

Decimal(n) == IF n < 0 THEN <<Chr("-")>> \o DecimalDigits(0 - n) ELSE DecimalDigits(n)

\* The welcome line of editorDrawRows.
WelcomeLine(scols) ==
  LET welcomelen == IF Len(Welcome) > scols THEN scols ELSE Len(Welcome)
      padding    == (scols - welcomelen) \div 2
  IN (IF padding # 0 THEN <<Chr("~")>> \o Pad(padding - 1) ELSE <<>>)
       \o Take(Welcome, welcomelen)

\* Mutant of DrawRow: every row is drawn from its first column.
DrawRowUnscrolled(rows, y, srows, scols, roff, coff) ==
  LET filerow == y + roff
  IN IF filerow >= Len(rows)
     THEN IF Len(rows) = 0 /\ y = srows \div 3 THEN WelcomeLine(scols)
          ELSE <<Chr("~")>>
     ELSE Take(rows[filerow + 1].render, scols)

\* The text editorDrawRows appends for screen line y.
DrawRow(rows, y, srows, scols, roff, coff) ==
  LET filerow == y + roff
  IN IF filerow >= Len(rows)
     THEN IF Len(rows) = 0 /\ y = srows \div 3 THEN WelcomeLine(scols)
          ELSE <<Chr("~")>>
     ELSE LET rsz  == rows[filerow + 1].rsize
              len0 == IF rsz - coff < 0 THEN 0 ELSE rsz - coff
              len  == IF len0 > scols THEN scols ELSE len0
          IN SubSeq(rows[filerow + 1].render, coff + 1, coff + len)

RECURSIVE DrawRowsFrom(_, _, _, _, _, _)
DrawRowsFrom(y, rows, srows, scols, roff, coff) ==
  IF y >= srows THEN <<>>
  ELSE <<Text(DrawRow(rows, y, srows, scols, roff, coff)), Tok("el"), Tok("crlf")>>
         \o DrawRowsFrom(y + 1, rows, srows, scols, roff, coff)

editorDrawRows(rows, srows, scols, roff, coff) ==
  DrawRowsFrom(0, rows, srows, scols, roff, coff)

\* "%.20s - %d lines" and "%d/%d".
StatusText(fname, nrows) ==
  Take(IF fname = <<>> THEN NoName ELSE fname, 20)
    \o StatusDash \o Decimal(nrows) \o StatusLines

RStatusText(y, nrows) == Decimal(y + 1) \o <<Chr("/")>> \o Decimal(nrows)

\* The loop of editorDrawStatusBar, from a bar of len columns.
RECURSIVE StatusPad(_, _, _)
StatusPad(len, scols, rstatus) ==
  IF len >= scols THEN <<>>
  ELSE IF scols - len = Len(rstatus) THEN rstatus
  ELSE <<Chr(" ")>> \o StatusPad(len + 1, scols, rstatus)

\* Mutant of editorDrawStatusBar: the right text is never drawn.
editorDrawStatusBarLeftOnly(fname, nrows, y, scols) ==
  <<Tok("sgr7"),
    Text(Take(StatusText(fname, nrows) \o Pad(scols), scols)),
    Tok("sgr0"), Tok("crlf")>>

editorDrawStatusBar(fname, nrows, y, scols) ==
  LET lstatus == StatusText(fname, nrows)
      len     == IF Len(lstatus) > scols THEN scols ELSE Len(lstatus)
  IN <<Tok("sgr7"),
       Text(Take(lstatus, len) \o StatusPad(len, scols, RStatusText(y, nrows))),
       Tok("sgr0"), Tok("crlf")>>

\* Mutant of editorDrawMessageBar: the message is shown for 5 seconds more.
editorDrawMessageBarLate(msg, mtime, t, scols) ==
  <<Tok("el"), Text(IF t - mtime <= 5 THEN Take(msg, scols) ELSE <<>>)>>

\* msg was set at mtime; t is time(NULL).
editorDrawMessageBar(msg, mtime, t, scols) ==
  LET msglen == IF Len(msg) > scols THEN scols ELSE Len(msg)
  IN <<Tok("el"),
       Text(IF msglen # 0 /\ t - mtime < 5 THEN Take(msg, msglen) ELSE <<>>)>>

\* vsnprintf(E.statusmsg, sizeof(E.statusmsg), ...), for a format without
\* directives.
editorSetStatusMessage(msg) == Take(msg, 79)

\* The buffer editorRefreshScreen writes, v being what editorScroll left.
Frame(rows, y, v, srows, scols, fname, msg, mtime, t) ==
  <<Tok("hide"), Tok("home")>>
    \o editorDrawRows(rows, srows, scols, v.rowoff, v.coloff)
    \o editorDrawStatusBar(fname, Len(rows), y, scols)
    \o editorDrawMessageBar(msg, mtime, t, scols)
    \o <<Cup(y - v.rowoff + 1, v.rx - v.coloff + 1), Tok("show")>>

\* What the fallback of getWindowSize writes, when its writes succeed.
WindowSizeWrites(io, w1, w2) ==
  IF io.ret = -1 \/ io.ws_col = 0
  THEN IF w1 # 12 THEN <<>>
       ELSE <<<<Tok("corner")>>>> \o (IF w2 # 4 THEN <<>> ELSE <<<<Tok("dsr")>>>>)
  ELSE <<>>

(***************************************************************************)
(* The keys typed in Spec: one read(2) script for each key event.          *)
(***************************************************************************)
Script(bs) == [i \in 1..Len(bs) |-> Byte(bs[i])]

TypedScripts ==
  { Script(<<CTRL_Q>>),
    Script(<<Chr("a")>>),
    Script(<<TAB>>),
    Script(<<ESC, Chr("["), Chr("A")>>),
    Script(<<ESC, Chr("["), Chr("B")>>),
    Script(<<ESC, Chr("["), Chr("C")>>),
    Script(<<ESC, Chr("["), Chr("D")>>),
    Script(<<ESC, Chr("["), Chr("H")>>),
    Script(<<ESC, Chr("O"), Chr("F")>>),
    Script(<<ESC, Chr("["), Chr("3"), Chr("~")>>),
    Script(<<ESC, Chr("["), Chr("5"), Chr("~")>>),
    Script(<<ESC, Chr("["), Chr("6"), Chr("~")>>) }

\* What an out-of-bounds read can find: an int, and a byte of a row.
GarbageInts  == {-1, 0, 1}
GarbageBytes == {0, TAB}

(***************************************************************************)
(* The process.                                                            *)
(***************************************************************************)
NoKey == 0

NoResult == [key |-> NoKey, reads |-> 0, died |-> FALSE, nth |-> 0]

KeyIdle == stream = <<>> /\ kin = <<>> /\ kres = NoResult /\ typed = <<>>
RowIdle == /\ rrow = NewRow(<<>>) /\ rop = "none"
NoQuery == [io |-> [ret |-> 0, ws_row |-> 0, ws_col |-> 0], w1 |-> 0, w2 |-> 0]
WinIdle == winq = NoQuery

Init ==
  /\ pc = "main"
  /\ term = Cooked7
  /\ orig_termios = ZeroTermios
  /\ atexit = FALSE
  /\ log = <<>>
  /\ status = -1
  /\ out = <<>>
  /\ \/ argc = 1 /\ file = NoFile
     \/ argc = 2 /\ file \in Files
  /\ cx = 0 /\ cy = 0 /\ rx = 0 /\ rowoff = 0 /\ coloff = 0
  /\ screenrows = 0 /\ screencols = 0
  /\ row = <<>>
  /\ filename = <<>>
  /\ statusmsg = <<>> /\ statusmsg_time = 0
  /\ now = 0
  /\ edits = 0
  /\ lastkey = NoKey
  /\ KeyIdle
  /\ RowIdle
  /\ WinIdle

cursorvars == <<cx, cy, rx, rowoff, coloff>>
docvars    == <<row, edits>>
setupvars  == <<argc, file, screenrows, screencols, filename, statusmsg,
                statusmsg_time, now>>

\* enableRawMode: tcgetattr, atexit, tcsetattr.
EnableRawMode ==
  /\ pc = "main"
  /\ \E getok \in BOOLEAN, setok \in BOOLEAN, ok \in BOOLEAN, ub \in ExitUB :
       IF ~getok
       THEN /\ Ends(die("tcgetattr", term, orig_termios, atexit, log, ok, ub))
            /\ UNCHANGED <<orig_termios, atexit>>
       ELSE /\ orig_termios' = term
            /\ atexit' = TRUE
            /\ IF ~setok
               THEN Ends(die("tcsetattr", term, term, TRUE, log, ok, ub))
               ELSE /\ term' = RawOf(term)
                    /\ pc' = "initEditor"
                    /\ UNCHANGED <<log, status, out>>
  /\ UNCHANGED <<edvars, keyvars, rowvars, winq>>

\* initEditor where ioctl gives io, the two write(2) calls of the fallback
\* return w1 and w2, and reply is what read(2) then gives.
InitEditorOn(io, w1, w2, reply) ==
  /\ \E ok \in BOOLEAN, ub \in ExitUB :
       LET ws == getWindowSize(io, w1, w2, reply)
       IN IF ws.ret = -1
          THEN /\ EndsAfter(WindowSizeWrites(io, w1, w2),
                         die("getWindowSize", term, orig_termios, atexit, log, ok, ub))
               /\ UNCHANGED <<screenrows, screencols>>
          ELSE /\ screenrows' = ws.rows - 2
               /\ screencols' = ws.cols
               /\ pc' = "editorOpen"
               /\ out' = WindowSizeWrites(io, w1, w2)
               /\ UNCHANGED <<term, log, status>>
  /\ cx' = 0 /\ cy' = 0 /\ rx' = 0 /\ rowoff' = 0 /\ coloff' = 0
  /\ row' = <<>>
  /\ filename' = <<>>
  /\ statusmsg' = <<>> /\ statusmsg_time' = 0
  /\ UNCHANGED <<orig_termios, atexit, argc, file, now, edits, lastkey, rowvars>>

\* initEditor: the fields of E are zero already; the window size.
InitEditor ==
  /\ pc = "initEditor"
  /\ \E io \in IoctlResults, w1 \in {12, -1}, w2 \in {4, -1}, reply \in CprReplies :
       InitEditorOn(io, w1, w2, reply)
  /\ UNCHANGED <<keyvars, winq>>

\* main: if (argc >= 2) editorOpen(argv[1]).
EditorOpen ==
  /\ pc = "editorOpen"
  /\ IF argc >= 2
     THEN \E fopen_ok \in BOOLEAN, ok \in BOOLEAN, ub \in ExitUB :
            /\ filename' = file.name
            /\ IF ~fopen_ok
               THEN /\ Ends(die("fopen", term, orig_termios, atexit, log, ok, ub))
                    /\ UNCHANGED row
               ELSE /\ row' = editorOpen(row, file.bytes)
                    /\ pc' = "setStatus"
                    /\ out' = <<>>
                    /\ UNCHANGED <<term, log, status>>
     ELSE /\ pc' = "setStatus"
          /\ out' = <<>>
          /\ UNCHANGED <<term, log, status, filename, row>>
  /\ UNCHANGED <<orig_termios, atexit, argc, file, cursorvars, screenrows, screencols,
                 statusmsg, statusmsg_time, now, edits, lastkey, keyvars, rowvars, winq>>

\* main: editorSetStatusMessage("HELP: Ctrl-Q = quit").
SetStatusMessage ==
  /\ pc = "setStatus"
  /\ statusmsg' = editorSetStatusMessage(HelpMessage)
  /\ statusmsg_time' = now
  /\ pc' = "refresh"
  /\ UNCHANGED <<term, orig_termios, atexit, log, status, out, argc, file, cursorvars,
                 screenrows, screencols, row, filename, now, edits, lastkey,
                 keyvars, rowvars, winq>>

View == [cx |-> cx, cy |-> cy, rx |-> rx, rowoff |-> rowoff, coloff |-> coloff]
Cursor == [cx |-> cx, cy |-> cy]

\* Mutant of Written: the frame is composed before editorScroll has run.
WrittenBeforeScroll(v) ==
  <<Frame(row, cy, View, screenrows, screencols, filename, statusmsg,
          statusmsg_time, now)>>

\* The one write of editorRefreshScreen, v being what editorScroll left.
Written(v) ==
  <<Frame(row, cy, v, screenrows, screencols, filename, statusmsg,
          statusmsg_time, now)>>

\* Mutant of EditorRefreshScreen: the message bar, once drawn, clears the
\* message.
EditorRefreshScreenForgets ==
  /\ pc = "refresh"
  /\ ~ScrollOutOfBounds(row, View)
  /\ LET v == editorScroll(row, View, screenrows, screencols)
     IN /\ rx' = v.rx /\ rowoff' = v.rowoff /\ coloff' = v.coloff
        /\ out' = Written(v)
        /\ pc' = "readkey"
  /\ lastkey' = NoKey
  /\ statusmsg' = <<>>
  /\ UNCHANGED <<term, orig_termios, atexit, log, status, cx, cy, docvars, argc,
                 file, screenrows, screencols, filename, statusmsg_time, now,
                 keyvars, rowvars, winq>>

\* editorRefreshScreen: editorScroll, then the frame, written at once.
EditorRefreshScreen ==
  /\ pc = "refresh"
  /\ IF ScrollOutOfBounds(row, View)
     THEN \/ /\ pc' = "killed"
             /\ out' = <<>>
             /\ UNCHANGED <<rx, rowoff, coloff>>
          \/ \E g \in GarbageBytes :
               LET v == editorScrollG(row, View, screenrows, screencols, g)
               IN /\ rx' = v.rx /\ rowoff' = v.rowoff /\ coloff' = v.coloff
                  /\ out' = Written(v)
                  /\ pc' = "readkey"
     ELSE LET v == editorScroll(row, View, screenrows, screencols)
          IN /\ rx' = v.rx /\ rowoff' = v.rowoff /\ coloff' = v.coloff
             /\ out' = Written(v)
             /\ pc' = "readkey"
  /\ lastkey' = NoKey
  /\ UNCHANGED <<term, orig_termios, atexit, log, status, cx, cy, docvars, setupvars,
                 keyvars, rowvars, winq>>

\* editorReadKey: the first read gives nothing, and is made again.
ReadRetry ==
  /\ pc = "readkey"
  /\ \E r \in {Timeout, Fails(EAGAIN)} : FirstReadRetries(r)
  /\ UNCHANGED vars

\* editorReadKey: the first read fails.
ReadDies ==
  /\ pc = "readkey"
  /\ \E r \in {Fails(EIO)}, ok \in BOOLEAN, ub \in ExitUB :
       /\ FirstReadDies(r)
       /\ Ends(die("read", term, orig_termios, atexit, log, ok, ub))
  /\ UNCHANGED <<orig_termios, atexit, edvars, keyvars, rowvars, winq>>

\* The cursor is followed this far.
Followed(rows, c) ==
  /\ c.cy <= Len(rows) + MaxPast
  /\ c.cx >= -MaxPast

\* Mutant of Quit: the process exits without clearing the screen.
QuitWithoutClear ==
  /\ \E ok \in BOOLEAN, ub \in ExitUB :
       Ends(Exit(0, term, orig_termios, atexit, log, ok, ub))
  /\ UNCHANGED <<cursorvars, docvars>>

\* case CTRL_KEY('q')
Quit ==
  /\ \E ok \in BOOLEAN, ub \in ExitUB :
       Ends(Exit(0, term, orig_termios, atexit,
                 log \o <<Ev("clear"), Ev("home")>>, ok, ub))
  /\ UNCHANGED <<cursorvars, docvars>>

\* Mutant of HomeEnd: END goes to the end of the rendered row.
HomeEndRendered(key) ==
  /\ cx' = IF key = HOME_KEY THEN 0
           ELSE IF cy < numrows THEN row[cy + 1].rsize ELSE cx
  /\ pc' = "refresh"
  /\ out' = <<>>
  /\ UNCHANGED <<term, log, status, cy, rx, rowoff, coloff, docvars>>

\* case HOME_KEY, case END_KEY
HomeEnd(key) ==
  /\ cx' = IF key = HOME_KEY THEN 0
           ELSE IF cy < numrows THEN row[cy + 1].size ELSE cx
  /\ pc' = "refresh"
  /\ out' = <<>>
  /\ UNCHANGED <<term, log, status, cy, rx, rowoff, coloff, docvars>>

\* case PAGE_UP, case PAGE_DOWN
Page(key) ==
  LET c == PageMove(key, row, Cursor, rowoff, screenrows)
  IN /\ Followed(row, c)
     /\ cx' = c.cx /\ cy' = c.cy
     /\ IF PageOverflows(screenrows)
        THEN \E ov \in OverflowUB : pc' = IF ov = "hang" THEN "hung" ELSE "refresh"
        ELSE pc' = "refresh"
     /\ out' = <<>>
     /\ UNCHANGED <<term, log, status, rx, rowoff, coloff, docvars>>

\* case ARROW_UP, ARROW_DOWN, ARROW_LEFT, ARROW_RIGHT
Arrow(key) ==
  /\ IF MoveOutOfBounds(key, row, Cursor)
     THEN \/ /\ pc' = "killed"
             /\ UNCHANGED <<cx, cy>>
          \/ \E g \in GarbageInts :
               LET c == editorMoveCursorG(key, row, Cursor, g)
               IN /\ Followed(row, c)
                  /\ cx' = c.cx /\ cy' = c.cy
                  /\ pc' = "refresh"
     ELSE LET c == editorMoveCursor(key, row, Cursor)
          IN /\ Followed(row, c)
             /\ cx' = c.cx /\ cy' = c.cy
             /\ pc' = "refresh"
  /\ out' = <<>>
  /\ UNCHANGED <<term, log, status, rx, rowoff, coloff, docvars>>

\* default: editorInsertChar(c)
Insert(key) ==
  /\ edits < MaxEdits
  /\ edits' = edits + 1
  /\ IF InsertOutOfBounds(row, Cursor)
     THEN \/ /\ pc' = "killed"
             /\ UNCHANGED <<cx, row>>
          \/ /\ cx' = cx + 1      \* the write lands outside the document
             /\ pc' = "refresh"
             /\ UNCHANGED row
     ELSE LET r == editorInsertChar(row, Cursor, key)
          IN /\ row' = r.row
             /\ cx' = r.cx
             /\ pc' = "refresh"
  /\ out' = <<>>
  /\ UNCHANGED <<term, log, status, cy, rx, rowoff, coloff>>

\* The switch of editorProcessKeypress.
Dispatch(key) ==
  CASE key = CTRL_Q -> Quit
    [] key \in {HOME_KEY, END_KEY} -> HomeEnd(key)
    [] key \in {PAGE_UP, PAGE_DOWN} -> Page(key)
    [] key \in {ARROW_UP, ARROW_DOWN, ARROW_LEFT, ARROW_RIGHT} -> Arrow(key)
    [] OTHER -> Insert(key)

\* editorProcessKeypress, from the read that delivers a byte.
EditorProcessKeypress ==
  /\ pc = "readkey"
  /\ \E s \in TypedScripts, sgn \in BOOLEAN :
       LET k == editorReadKey(s, sgn).key
       IN /\ lastkey' = k
          /\ Dispatch(k)
  /\ UNCHANGED <<orig_termios, atexit, setupvars, keyvars, rowvars, winq>>

Next ==
  \/ EnableRawMode
  \/ InitEditor
  \/ EditorOpen
  \/ SetStatusMessage
  \/ EditorRefreshScreen
  \/ ReadRetry
  \/ ReadDies
  \/ EditorProcessKeypress

Spec == Init /\ [][Next]_vars

(***************************************************************************)
(* SpecKey: editorReadKey on a stream of read(2) results.  Each call takes  *)
(* its reads off the front of the stream, so what a call leaves is what    *)
(* the next call finds.                                                    *)
(***************************************************************************)
\* The bytes that can follow ESC, and the reads that give none.
KeyBytes ==
  {ESC, TAB, 233} \cup
  {Chr(c) : c \in {"[", "O", "~", ";", "0", "1", "2", "3", "4", "5", "6", "7", "8",
                   "9", "A", "B", "C", "D", "F", "H", "Z", "x"}}
KeyReads == {Byte(b) : b \in KeyBytes} \cup {Timeout, Fails(EAGAIN), Fails(EIO)}

\* Every sequence of 0..n read results.
RECURSIVE ReadSeqs(_)
ReadSeqs(n) ==
  IF n = 0 THEN {<<>>}
  ELSE LET shorter == ReadSeqs(n - 1)
       IN shorter \cup {Append(t, r) : t \in {u \in shorter : Len(u) = n - 1},
                                       r \in KeyReads}

\* Longer streams: a whole sequence and what is typed after it.
LongStreams ==
  { Script(<<ESC, Chr("["), Chr("3"), Chr("~"), Chr("x")>>),
    Script(<<ESC, Chr("["), Chr("5"), Chr("~"), ESC, Chr("["), Chr("A")>>),
    Script(<<ESC, Chr("["), Chr("1"), Chr(";"), Chr("5"), Chr("C")>>),
    Script(<<ESC, ESC, Chr("["), Chr("A")>>),
    Script(<<ESC, Chr("O"), Chr("F"), Chr("["), Chr("x")>>),
    <<Timeout, Fails(EAGAIN), Byte(ESC), Byte(Chr("[")), Byte(Chr("D"))>>,
    <<Timeout, Fails(EIO)>>,
    <<Byte(ESC), Byte(Chr("[")), Byte(Chr("1")), Timeout, Byte(Chr("~"))>> }

KeyStreams ==
  {<<r>> : r \in KeyReads} \cup
  {<<Byte(ESC)>> \o t : t \in ReadSeqs(SeqLen)} \cup
  LongStreams

InitKey ==
  /\ pc = "readkey"
  /\ term = RawOf(Cooked7)
  /\ orig_termios = Cooked7
  /\ atexit = TRUE
  /\ log = <<>>
  /\ status = -1
  /\ out = <<>>
  /\ argc = 1 /\ file = NoFile
  /\ cx = 0 /\ cy = 0 /\ rx = 0 /\ rowoff = 0 /\ coloff = 0
  /\ screenrows = 0 /\ screencols = 0
  /\ row = <<>>
  /\ filename = <<>>
  /\ statusmsg = <<>> /\ statusmsg_time = 0
  /\ now = 0
  /\ edits = 0
  /\ lastkey = NoKey
  /\ stream \in KeyStreams
  /\ kin = <<>>
  /\ kres = NoResult
  /\ typed = <<>>
  /\ RowIdle
  /\ WinIdle

\* editorReadKey: the first read gives nothing, and is made again.
KeyRetry ==
  /\ ~kres.died
  /\ stream # <<>>
  /\ FirstReadRetries(Head(stream))
  /\ stream' = Tail(stream)
  /\ UNCHANGED <<kin, kres, typed, procvars, edvars, rowvars, winq>>

\* editorReadKey: the first read fails, and the process dies.
KeyDies ==
  /\ ~kres.died
  /\ stream # <<>>
  /\ FirstReadDies(Head(stream))
  /\ kin' = stream
  /\ kres' = [key |-> NoKey, reads |-> 1, died |-> TRUE, nth |-> kres.nth]
  /\ stream' = Tail(stream)
  /\ UNCHANGED <<typed, procvars, edvars, rowvars, winq>>

\* editorReadKey: the first read delivers a byte, and a key is returned.
KeyRead ==
  /\ ~kres.died
  /\ stream # <<>>
  /\ Head(stream).n = 1
  /\ \E sgn \in BOOLEAN :
       LET r == editorReadKey(stream, sgn)
       IN /\ kin' = stream
          /\ kres' = [key |-> r.key, reads |-> r.reads, died |-> FALSE,
                      nth |-> kres.nth + 1]
          /\ stream' = SubSeq(stream, r.reads + 1, Len(stream))
  /\ UNCHANGED <<typed, procvars, edvars, rowvars, winq>>

NextKey == KeyRetry \/ KeyDies \/ KeyRead

SpecKey == InitKey /\ [][NextKey]_vars

(***************************************************************************)
(* SpecRow: the row operations on one row.                                 *)
(***************************************************************************)
RowBytes == {TAB, Chr("a"), Chr("b")}

\* Every sequence of 0..n bytes of a row.
RECURSIVE RawRows(_)
RawRows(n) ==
  IF n = 0 THEN {<<>>}
  ELSE LET shorter == RawRows(n - 1)
       IN shorter \cup {Append(t, b) : t \in {u \in shorter : Len(u) = n - 1},
                                       b \in RowBytes}

\* The row as editorAppendRow has it before it calls editorUpdateRow.
BareRow(s) == [size |-> Len(s), rsize |-> 0, chars |-> s, render |-> <<>>]

InitRow ==
  /\ pc = "row"
  /\ term = RawOf(Cooked7)
  /\ orig_termios = Cooked7
  /\ atexit = TRUE
  /\ log = <<>>
  /\ status = -1
  /\ out = <<>>
  /\ argc = 1 /\ file = NoFile
  /\ cx = 0 /\ cy = 0 /\ rx = 0 /\ rowoff = 0 /\ coloff = 0
  /\ screenrows = 0 /\ screencols = 0
  /\ row = <<>>
  /\ filename = <<>>
  /\ statusmsg = <<>> /\ statusmsg_time = 0
  /\ now = 0
  /\ edits = 0
  /\ lastkey = NoKey
  /\ KeyIdle
  /\ \E s \in RawRows(MaxRowLen) : rrow = BareRow(s)
  /\ rop = "new"
  /\ WinIdle

\* editorAppendRow's call of editorUpdateRow.
RowUpdate ==
  /\ rop = "new"
  /\ rrow' = editorUpdateRow(rrow)
  /\ rop' = "update"
  /\ UNCHANGED <<procvars, edvars, keyvars, winq>>

\* The columns a byte is inserted at: those of the row, and some outside it.
InsertColumns(n) == (0..n) \cup {-1, n + 1, n + 5}

\* editorRowInsertChar on a row as editorAppendRow left it, at any column and
\* with any key; cx and lastkey keep the column and the key it was called
\* with (editorInsertChar passes E.cx).
RowInsert ==
  /\ rop = "update"
  /\ rrow.size < MaxRowLen
  /\ \E at \in InsertColumns(rrow.size), c \in {TAB, Chr("a"), DEL_KEY} :
       /\ rrow' = editorRowInsertChar(rrow, at, c)
       /\ cx' = at
       /\ lastkey' = c
  /\ rop' = "insert"
  /\ UNCHANGED <<procvars, argc, file, cy, rx, rowoff, coloff, screenrows, screencols,
                 row, filename, statusmsg, statusmsg_time, now, edits, keyvars, winq>>

\* editorScroll's E.rx = editorRowCxToRx(&E.row[E.cy], E.cx), for a column of
\* the row.
RowProject ==
  /\ rop # "new"
  /\ \E x \in 0..rrow.size :
       /\ cx' = x
       /\ rx' = editorRowCxToRx(rrow, x)
  /\ rop' = "project"
  /\ UNCHANGED <<procvars, argc, file, cy, rowoff, coloff, screenrows, screencols,
                 row, filename, statusmsg, statusmsg_time, now, edits, lastkey,
                 keyvars, rrow, winq>>

NextRow == RowUpdate \/ RowInsert \/ RowProject

SpecRow == InitRow /\ [][NextRow]_vars

(***************************************************************************)
(* SpecFrame: the loop of main in windows wide enough for the banner and   *)
(* the status bar, the clock running; the keys are the four arrows.        *)
(***************************************************************************)
MaxFrameRows == 3    \* the most text rows of a window
MaxFrameCols == 34   \* the widest window
MaxTime      == 6    \* the seconds the clock runs after the message was set

\* The widths: the narrow windows, and those around the width of the banner.
NarrowCols == 5
WideCols   == 7
FrameCols  == (1..NarrowCols) \cup ((MaxFrameCols - WideCols)..MaxFrameCols)

\* The arguments of editorSetStatusMessage.
Messages == {<<>>, Bytes("ab"), HelpMessage}

\* The state main is in before its first editorRefreshScreen, the window
\* having at least one row.
InitFrame ==
  /\ pc = "refresh"
  /\ term = RawOf(Cooked7)
  /\ orig_termios = Cooked7
  /\ atexit = TRUE
  /\ log = <<>>
  /\ status = -1
  /\ out = <<>>
  /\ \/ argc = 1 /\ file = NoFile
     \/ argc = 2 /\ file \in {FileABC, FileLong}
  /\ row = editorOpen(<<>>, file.bytes)
  /\ filename = file.name
  /\ cx = 0 /\ cy = 0 /\ rx = 0 /\ rowoff = 0 /\ coloff = 0
  /\ screenrows \in (1 - 2)..MaxFrameRows
  /\ screencols \in FrameCols
  /\ \E m \in Messages : statusmsg = editorSetStatusMessage(m)
  /\ statusmsg_time = 0
  /\ now = 0
  /\ edits = 0
  /\ lastkey = NoKey
  /\ KeyIdle
  /\ RowIdle
  /\ WinIdle

\* A second passes while editorReadKey waits.
FrameTick ==
  /\ pc = "readkey"
  /\ now < MaxTime
  /\ now' = now + 1
  /\ UNCHANGED <<procvars, argc, file, cx, cy, rx, rowoff, coloff, screenrows,
                 screencols, row, filename, statusmsg, statusmsg_time, edits,
                 lastkey, keyvars, rowvars, winq>>

\* editorProcessKeypress of an arrow key.
FrameKey ==
  /\ pc = "readkey"
  /\ \E key \in {ARROW_UP, ARROW_DOWN, ARROW_LEFT, ARROW_RIGHT} :
       /\ lastkey' = key
       /\ Arrow(key)
  /\ UNCHANGED <<orig_termios, atexit, setupvars, keyvars, rowvars, winq>>

NextFrame == EditorRefreshScreen \/ FrameTick \/ FrameKey

SpecFrame == InitFrame /\ [][NextFrame]_vars

(***************************************************************************)
(* SpecTyped: the loop of main on the file "abc\n\tx\n\n", the keys read   *)
(* from a stream of bytes.                                                 *)
(***************************************************************************)
MaxTyped == 3   \* the keys of a stream

\* What the terminal sends for END (in its four forms), DOWN and HOME, and a
\* read that times out before a key is typed.
KeyScripts ==
  { <<Timeout>>,
    Script(<<ESC, Chr("["), Chr("F")>>),
    Script(<<ESC, Chr("O"), Chr("F")>>),
    Script(<<ESC, Chr("["), Chr("4"), Chr("~")>>),
    Script(<<ESC, Chr("["), Chr("8"), Chr("~")>>),
    Script(<<ESC, Chr("["), Chr("B")>>),
    Script(<<ESC, Chr("["), Chr("H")>>) }

\* The streams of n keys.
RECURSIVE TypedStreams(_)
TypedStreams(n) ==
  IF n = 0 THEN {<<>>}
  ELSE {s \o t : s \in KeyScripts, t \in TypedStreams(n - 1)}

\* What the terminal sends for keys that editorProcessKeypress has no case
\* for: 'a', TAB, ENTER, byte 233, ESC alone, DELETE, and two sequences that
\* editorReadKey does not know.
InsertScripts ==
  { Script(<<Chr("a")>>),
    Script(<<TAB>>),
    Script(<<Chr("\r")>>),
    Script(<<233>>),
    <<Byte(ESC), Timeout>>,
    Script(<<ESC, Chr("["), Chr("3"), Chr("~")>>),
    Script(<<ESC, Chr("["), Chr("Z")>>),
    Script(<<ESC, Chr("O"), Chr("x")>>) }

\* The streams of n keys, the last of them one that is inserted.
TypedThenInserted(n) ==
  {s \o t : s \in TypedStreams(n - 1), t \in InsertScripts}

InitTyped ==
  /\ pc = "refresh"
  /\ term = RawOf(Cooked7)
  /\ orig_termios = Cooked7
  /\ atexit = TRUE
  /\ log = <<>>
  /\ status = -1
  /\ out = <<>>
  /\ argc = 2 /\ file = FileABC
  /\ row = editorOpen(<<>>, file.bytes)
  /\ filename = file.name
  /\ cx = 0 /\ cy = 0 /\ rx = 0 /\ rowoff = 0 /\ coloff = 0
  /\ screenrows \in (1 - 2)..MaxFrameRows
  /\ screencols \in 1..NarrowCols
  /\ statusmsg = editorSetStatusMessage(HelpMessage)
  /\ statusmsg_time = 0
  /\ now = 0
  /\ edits = 0
  /\ lastkey = NoKey
  /\ stream \in TypedStreams(MaxTyped) \cup TypedThenInserted(MaxTyped)
  /\ kin = <<>>
  /\ kres = NoResult
  /\ typed = <<>>
  /\ RowIdle
  /\ WinIdle

\* editorProcessKeypress: editorReadKey on the stream, and the switch.
TypedKey ==
  /\ pc = "readkey"
  /\ stream # <<>>
  /\ Head(stream).n = 1
  /\ \E sgn \in BOOLEAN :
       LET r == editorReadKey(stream, sgn)
       IN /\ kin' = stream
          /\ kres' = [key |-> r.key, reads |-> r.reads, died |-> FALSE,
                      nth |-> kres.nth + 1]
          /\ stream' = SubSeq(stream, r.reads + 1, Len(stream))
          /\ typed' = Append(typed, r.key)
          /\ lastkey' = r.key
          /\ Dispatch(r.key)
  /\ UNCHANGED <<orig_termios, atexit, setupvars, rowvars, winq>>

\* Mutant of TypedRetry: a read that gives nothing returns to the loop of main.
TypedRetryRedraws ==
  /\ pc = "readkey"
  /\ stream # <<>>
  /\ FirstReadRetries(Head(stream))
  /\ stream' = Tail(stream)
  /\ pc' = "refresh"
  /\ UNCHANGED <<kin, kres, typed, term, orig_termios, atexit, log, status, out,
                 edvars, rowvars, winq>>

\* editorReadKey: the first read gives nothing, and is made again.
TypedRetry ==
  /\ pc = "readkey"
  /\ stream # <<>>
  /\ FirstReadRetries(Head(stream))
  /\ stream' = Tail(stream)
  /\ UNCHANGED <<kin, kres, typed, procvars, edvars, rowvars, winq>>

NextTyped == EditorRefreshScreen \/ TypedRetry \/ TypedKey

SpecTyped == InitTyped /\ [][NextTyped]_vars

(***************************************************************************)
(* SpecOpen: editorOpen on every small file.                               *)
(***************************************************************************)
MaxFileLen == 4   \* the bytes of a file

FileBytes == {Chr("a"), TAB, Chr("\r"), Chr("\n")}

\* Every file content of at most n bytes.
RECURSIVE FileContents(_)
FileContents(n) ==
  IF n = 0 THEN {<<>>}
  ELSE LET shorter == FileContents(n - 1)
       IN shorter \cup {Append(t, b) : t \in {u \in shorter : Len(u) = n - 1},
                                       b \in FileBytes}

\* main before editorOpen(argv[1]), in a window of 24 rows and 80 columns.
InitOpen ==
  /\ pc = "editorOpen"
  /\ term = RawOf(Cooked7)
  /\ orig_termios = Cooked7
  /\ atexit = TRUE
  /\ log = <<>>
  /\ status = -1
  /\ out = <<>>
  /\ argc = 2
  /\ \E b \in FileContents(MaxFileLen) : file = [name |-> FileABC.name, bytes |-> b]
  /\ cx = 0 /\ cy = 0 /\ rx = 0 /\ rowoff = 0 /\ coloff = 0
  /\ screenrows = 24 - 2 /\ screencols = 80
  /\ row = <<>>
  /\ filename = <<>>
  /\ statusmsg = <<>> /\ statusmsg_time = 0
  /\ now = 0
  /\ edits = 0
  /\ lastkey = NoKey
  /\ KeyIdle
  /\ RowIdle
  /\ WinIdle

NextOpen == EditorOpen \/ SetStatusMessage

SpecOpen == InitOpen /\ [][NextOpen]_vars

(***************************************************************************)
(* SpecWin: initEditor and what follows it up to the first refresh, the    *)
(* results of the system calls of the window size query drawn beforehand.  *)
(***************************************************************************)
\* What ioctl and the two write(2) calls of the fallback return.
WinQueries ==
  {[io |-> io, w1 |-> w1, w2 |-> w2] :
     io \in IoctlResults, w1 \in {12, -1}, w2 \in {4, -1}}

\* The replies: those of Spec, a report of zero columns and one of a window
\* of 24 rows and 80 columns.
WinReplies ==
  CprReplies \cup
  { Script(<<ESC, Chr("["), Chr("3"), Chr(";"), Chr("0"), Chr("R")>>),
    Script(<<ESC, Chr("["), Chr("2"), Chr("4"), Chr(";"), Chr("8"), Chr("0"),
             Chr("R")>>) }

\* The state main is in after enableRawMode, without a file argument.
InitWin ==
  /\ pc = "initEditor"
  /\ term = RawOf(Cooked7)
  /\ orig_termios = Cooked7
  /\ atexit = TRUE
  /\ log = <<>>
  /\ status = -1
  /\ out = <<>>
  /\ argc = 1
  /\ file = NoFile
  /\ cx = 0 /\ cy = 0 /\ rx = 0 /\ rowoff = 0 /\ coloff = 0
  /\ screenrows = 0 /\ screencols = 0
  /\ row = <<>>
  /\ filename = <<>>
  /\ statusmsg = <<>> /\ statusmsg_time = 0
  /\ now = 0
  /\ edits = 0
  /\ lastkey = NoKey
  /\ stream \in WinReplies
  /\ kin = <<>> /\ kres = NoResult /\ typed = <<>>
  /\ RowIdle
  /\ winq \in WinQueries

\* initEditor on the results drawn.
InitEditorAsked ==
  /\ pc = "initEditor"
  /\ InitEditorOn(winq.io, winq.w1, winq.w2, stream)
  /\ UNCHANGED <<keyvars, winq>>

NextWin == InitEditorAsked \/ EditorOpen \/ SetStatusMessage

SpecWin == InitWin /\ [][NextWin]_vars

(***************************************************************************)
(* The claims.                                                             *)
(***************************************************************************)
Events(lg) == {lg[i] : i \in 1..Len(lg)}

\* The places of an event in the log.
Places(lg, e) == {i \in 1..Len(lg) : lg[i] = e}

\* The reports die makes once the terminal is in raw mode.
RawReports == {Perror("getWindowSize"), Perror("fopen"), Perror("read")}

\* C1, as stated: in every state the process has exited in, after enableRawMode
\* registered disableRawMode, the terminal has the configuration captured at
\* startup.
C1_AsStated ==
  (pc = "exited" /\ atexit) => term = orig_termios

\* C1, amended: on every exit path taken after enableRawMode registered
\* disableRawMode, disableRawMode has run; where its tcsetattr succeeded the
\* terminal has the captured configuration, and where it failed "tcsetattr" is
\* reported, the exit status is 1 and the terminal is as it was.
C1_RestoredWhereTcsetattrSucceeds ==
  (pc = "exited" /\ atexit) =>
    \/ /\ Ev("restored") \in Events(log)
       /\ term = orig_termios
    \/ /\ Ev("restore failed") \in Events(log)
       /\ Perror("tcsetattr") \in Events(log)
       /\ status = 1
       /\ term \in {orig_termios, RawOf(orig_termios)}

\* C1, witness: a failed read in the running loop ended the process, and the
\* raw terminal is back in its captured configuration.
C1_Witness ==
  /\ pc = "exited"
  /\ status = 1
  /\ Perror("read") \in Events(log)
  /\ Ev("restored") \in Events(log)
  /\ orig_termios = Cooked7
  /\ term = Cooked7

Running == pc \in {"refresh", "readkey"}

\* The cursor is on a row of the document, in it or at its end, or at
\* column 0 of the line after the last row.
CursorValid ==
  /\ 0 <= cy /\ cy <= numrows
  /\ cy < numrows => (0 <= cx /\ cx <= row[cy + 1].size)
  /\ cy = numrows => cx = 0

\* C3, as stated: after any sequence of key events on any loaded document,
\* 0 <= cy <= numrows, 0 <= cx <= size(row[cy]) when cy < numrows, and cx = 0
\* when cy = numrows.
C3_AsStated ==
  Running => CursorValid

\* C3, where it holds: in a window that leaves at least one text row.
C3_HoldsWithTextRows ==
  (Running /\ screenrows >= 1) => CursorValid

\* The window: the cursor's row and rendered column are on the screen.
InWindow ==
  /\ rowoff <= cy /\ cy < rowoff + screenrows
  /\ coloff <= rx /\ rx < coloff + screencols

\* C4, as stated: after every editorScroll, with a document that is not empty,
\* rowoff <= cy < rowoff + screenrows and coloff <= rx < coloff + screencols.
C4_AsStated ==
  (pc = "readkey" /\ numrows > 0) => InWindow

\* C4, where it holds: in a window that leaves at least one text row.
C4_HoldsWithTextRows ==
  (pc = "readkey" /\ screenrows >= 1) => InWindow

(***************************************************************************)
(* The key decoder (SpecKey).                                              *)
(***************************************************************************)
\* A call of editorReadKey has returned a key.
Returned == kin # <<>> /\ ~kres.died

\* The reads the last call made, as places of kin.
ReadsMade == 1..kres.reads

IsByte(r, b) == r.n = 1 /\ r.c = b

\* C5: once ESC is read, editorReadKey returns after at most three more reads,
\* and a read among them that times out ends the call there with ESCAPE; ESC
\* and a timeout give ESCAPE after one more read.
C5_EscapeReturnsWithinThreeReads ==
  (Returned /\ IsByte(kin[1], ESC)) =>
    /\ kres.reads >= 2 /\ kres.reads <= 1 + SeqLen
    /\ \A i \in ReadsMade : Rd(kin, i).n = 0 => (kres.key = ESC /\ i = kres.reads)
    /\ Rd(kin, 2) = Timeout => (kres.key = ESC /\ kres.reads = 2)

\* C5, witness: ESC [ 3 and then a timeout: ESCAPE, after three more reads.
C5_Witness ==
  /\ Returned
  /\ kin = <<Byte(ESC), Byte(Chr("[")), Byte(Chr("3")), Timeout>>
  /\ kres.key = ESC
  /\ kres.reads = 4
  /\ stream = <<>>

\* The key the specification gives for ESC b2 b3 (b4).
TableKey(b2, b3, b4) ==
  IF b2 = Chr("[") /\ IsDigit(b3)
  THEN IF b4 # Chr("~") THEN ESC
       ELSE IF b3 \in {Chr("1"), Chr("7")} THEN HOME_KEY
       ELSE IF b3 = Chr("3") THEN DEL_KEY
       ELSE IF b3 \in {Chr("4"), Chr("8")} THEN END_KEY
       ELSE IF b3 = Chr("5") THEN PAGE_UP
       ELSE IF b3 = Chr("6") THEN PAGE_DOWN
       ELSE ESC
  ELSE IF b2 = Chr("[")
  THEN IF b3 = Chr("A") THEN ARROW_UP
       ELSE IF b3 = Chr("B") THEN ARROW_DOWN
       ELSE IF b3 = Chr("C") THEN ARROW_RIGHT
       ELSE IF b3 = Chr("D") THEN ARROW_LEFT
       ELSE IF b3 = Chr("H") THEN HOME_KEY
       ELSE IF b3 = Chr("F") THEN END_KEY
       ELSE ESC
  ELSE IF b2 = Chr("O")
  THEN IF b3 = Chr("H") THEN HOME_KEY
       ELSE IF b3 = Chr("F") THEN END_KEY
       ELSE ESC
  ELSE ESC

\* The bytes after ESC that the form of the sequence asks for are there.
FollowUpsThere(s) ==
  /\ Rd(s, 2).n = 1
  /\ Rd(s, 3).n = 1
  /\ (Rd(s, 2).c = Chr("[") /\ IsDigit(Rd(s, 3).c)) => Rd(s, 4).n = 1

\* C6: a sequence that starts with ESC and whose bytes are all there gives the
\* key of the table, and ESCAPE in every other form; a first byte other than
\* ESC is the key itself: the event holds that byte, and is none of the named
\* keys.
C6_KeyTable ==
  Returned =>
    IF kin[1].c = ESC
    THEN FollowUpsThere(kin) =>
           kres.key = TableKey(Rd(kin, 2).c, Rd(kin, 3).c, Rd(kin, 4).c)
    ELSE /\ ToByte(kres.key) = kin[1].c
         /\ kres.key < ARROW_LEFT
         /\ kin[1].c < 128 => kres.key = kin[1].c
         /\ kres.reads = 1

\* C6, witness: ESC [ 8 ~ has given END.
C6_Witness ==
  /\ Returned
  /\ kin = Script(<<ESC, Chr("["), Chr("8"), Chr("~")>>)
  /\ kres.key = END_KEY

\* The digits and letters of the recognised sequences.
TildeDigits    == {Chr(c) : c \in {"1", "3", "4", "5", "6", "7", "8"}}
BracketLetters == {Chr(c) : c \in {"A", "B", "C", "D", "H", "F"}}
OLetters       == {Chr("H"), Chr("F")}

\* The length of the recognised sequence s starts with; 0 if it starts with none.
SequenceLength(s) ==
  IF ~IsByte(Rd(s, 1), ESC) THEN 0
  ELSE IF IsByte(Rd(s, 2), Chr("[")) /\ Rd(s, 3).n = 1 /\ Rd(s, 3).c \in TildeDigits
          /\ IsByte(Rd(s, 4), Chr("~")) THEN 4
  ELSE IF IsByte(Rd(s, 2), Chr("[")) /\ Rd(s, 3).n = 1 /\ Rd(s, 3).c \in BracketLetters
       THEN 3
  ELSE IF IsByte(Rd(s, 2), Chr("O")) /\ Rd(s, 3).n = 1 /\ Rd(s, 3).c \in OLetters
       THEN 3
  ELSE 0

\* What the last call left of the stream it found.
LeftOver(n) == SubSeq(kin, n + 1, Len(kin))

\* Of the stream the last call found, the bytes of its first n reads are gone
\* and no other byte is: what the next call's first read has since passed
\* over are reads that gave no byte.
OnlyTaken(n) ==
  \E k \in n..Len(kin) :
    /\ stream = LeftOver(k)
    /\ \A j \in (n + 1)..k : kin[j].n # 1

\* C7, in each state: a call that found a recognised sequence returned one of
\* the named keys, after as many reads as the sequence has bytes (4 with '~',
\* 3 otherwise), and took those bytes from the stream and no other; ESC [ 3 ~
\* gives DELETE.
C7_ConsumesTheSequence ==
  (Returned /\ SequenceLength(kin) > 0) =>
    /\ kres.key >= ARROW_LEFT
    /\ kres.reads = SequenceLength(kin)
    /\ OnlyTaken(SequenceLength(kin))
    /\ (Len(kin) >= 4
        /\ SubSeq(kin, 1, 4) = Script(<<ESC, Chr("["), Chr("3"), Chr("~")>>))
         => kres.key = DEL_KEY

\* C7, from call to call: the byte after a recognised sequence is the first
\* byte of the next call, and, unless it is ESC, the key that call returns.
C7_NextCallStartsAfterIt ==
  (/\ Returned
   /\ SequenceLength(kin) > 0
   /\ Rd(kin, SequenceLength(kin) + 1).n = 1
   /\ kres'.nth = kres.nth + 1)
  => /\ kin' = LeftOver(SequenceLength(kin))
     /\ kin'[1].c # ESC => ToByte(kres'.key) = kin[SequenceLength(kin) + 1].c

\* C7: decoding a recognised sequence yields one key event and consumes
\* exactly the bytes of the sequence; the byte that follows starts the next
\* key event.
C7_OneEventPerSequence ==
  [](C7_ConsumesTheSequence) /\ [][C7_NextCallStartsAfterIt]_vars

\* C7, witness: of ESC [ 3 ~ x the first call has taken four bytes, and the
\* second call has returned 'x'.
C7_Witness ==
  /\ Returned
  /\ kres.nth = 2
  /\ kin = Script(<<Chr("x")>>)
  /\ kres.key = Chr("x")
  /\ stream = <<>>

\* A read failed, and not for want of input.
ReadError(r) == r.n = -1 /\ r.errno # EAGAIN

\* C8, as stated: a read of editorReadKey that fails, the first or one after
\* ESC, ends the process; no key is returned.
C8_AsStated ==
  kin # <<>> => \A i \in ReadsMade : ReadError(Rd(kin, i)) => kres.died

(***************************************************************************)
(* Rows.                                                                   *)
(***************************************************************************)
Front(s)  == SubSeq(s, 1, Len(s) - 1)
Spaces(n) == [i \in 1..n |-> Chr(" ")]

\* The tab expansion: a byte stands for itself, a tab for the spaces up to the
\* next multiple of the tab stop.
RECURSIVE TabExpand(_)
TabExpand(raw) ==
  IF raw = <<>> THEN <<>>
  ELSE LET e == TabExpand(Front(raw))
       IN IF raw[Len(raw)] = TAB
          THEN e \o Spaces(KILO_TAB_STOP - (Len(e) % KILO_TAB_STOP))
          ELSE Append(e, raw[Len(raw)])

\* C9: in every state, each row's render and rsize are the tab expansion of
\* its chars, and deriving render again changes nothing.
C9_RenderIsDerivedFromChars ==
  \A i \in 1..Len(row) :
    /\ row[i].size = Len(row[i].chars)
    /\ row[i].render = TabExpand(row[i].chars)
    /\ row[i].rsize = Len(row[i].render)
    /\ editorUpdateRow(row[i]) = row[i]

\* C9, witness: a tab was typed into a loaded row, and a row was appended by
\* loading; the row with the tab is wider rendered than raw.
C9_Witness ==
  /\ pc = "refresh"
  /\ lastkey = TAB
  /\ edits = 1
  /\ Len(row) >= 2
  /\ cy < Len(row)
  /\ row[cy + 1].size >= 3
  /\ row[cy + 1].chars[cx] = TAB
  /\ row[cy + 1].rsize > row[cy + 1].size

\* The sum, over the tabs of raw, of the spaces each adds beyond its own byte.
RECURSIVE TabExtra(_)
TabExtra(raw) ==
  IF raw = <<>> THEN 0
  ELSE TabExtra(Front(raw))
       + (IF raw[Len(raw)] = TAB
          THEN KILO_TAB_STOP - 1 - (Len(TabExpand(Front(raw))) % KILO_TAB_STOP)
          ELSE 0)

NotTab(b)  == b # TAB
NotSpace(b) == b # Chr(" ")

\* C10: of a row over tabs and other bytes, render holds no tab, holds the
\* other bytes once and in order, has spaces up to the next multiple of the
\* tab stop for each tab, and is as long as chars plus, for each tab,
\* tab stop - 1 - (the rendered column of the tab mod tab stop).
C10_TabExpansion ==
  rop # "new" =>
    /\ \A k \in 1..Len(rrow.render) : rrow.render[k] # TAB
    /\ SelectSeq(rrow.render, NotSpace) = SelectSeq(rrow.chars, NotTab)
    /\ rrow.render = TabExpand(rrow.chars)
    /\ rrow.rsize = Len(rrow.render)
    /\ rrow.rsize = rrow.size + TabExtra(rrow.chars)

\* C10, witness: "a\t\tb" is rendered in 9 columns.
C10_Witness ==
  /\ rop = "update"
  /\ rrow.chars = <<Chr("a"), TAB, TAB, Chr("b")>>
  /\ rrow.rsize = 9
  /\ rrow.render = <<Chr("a")>> \o Spaces(7) \o <<Chr("b")>>

(***************************************************************************)
(* The cursor's column on the screen (SpecRow).                            *)
(***************************************************************************)
\* What one byte adds to the column col.
Advance(b, col) == IF b = TAB THEN KILO_TAB_STOP - (col % KILO_TAB_STOP) ELSE 1

\* C11: editorRowCxToRx is 0 at column 0, and from each column of the row to
\* the next it grows by 1 for a byte and by tab stop - (column mod tab stop)
\* for a tab, so that it never decreases; the rx an application of it leaves
\* is the sum of these steps.
C11_CxToRxNeverDecreases ==
  rop # "new" =>
    /\ editorRowCxToRx(rrow, 0) = 0
    /\ \A x \in 0..(rrow.size - 1) :
         /\ editorRowCxToRx(rrow, x) <= editorRowCxToRx(rrow, x + 1)
         /\ editorRowCxToRx(rrow, x + 1)
              = editorRowCxToRx(rrow, x)
                + Advance(rrow.chars[x + 1], editorRowCxToRx(rrow, x))
    /\ \A x \in 0..rrow.size, y \in 0..rrow.size :
         x <= y => editorRowCxToRx(rrow, x) <= editorRowCxToRx(rrow, y)
    /\ rop = "project" => (rx >= cx /\ rx = Len(TabExpand(SubSeq(rrow.chars, 1, cx))))

\* C11, witness: in "a\tb" the column 3 is projected to 5.
C11_Witness ==
  /\ rop = "project"
  /\ rrow.chars = <<Chr("a"), TAB, Chr("b")>>
  /\ cx = 3
  /\ rx = 5

\* The row editorUpdateRow makes of the first x bytes of a row.
RenderedPrefix(rw, x) == editorUpdateRow(BareRow(SubSeq(rw.chars, 1, x)))

\* C12: for each column x of a row, editorRowCxToRx gives the length of what
\* editorUpdateRow renders of the x bytes before it; at the end of the row
\* it gives rsize; and a byte that is no tab is found in render at the place
\* editorRowCxToRx gives for it.
C12_ProjectionAgreesWithRender ==
  rop # "new" =>
    /\ \A x \in 0..rrow.size :
         editorRowCxToRx(rrow, x) = RenderedPrefix(rrow, x).rsize
    /\ editorRowCxToRx(rrow, rrow.size) = rrow.rsize
    /\ \A x \in 0..(rrow.size - 1) :
         rrow.chars[x + 1] # TAB =>
           rrow.render[editorRowCxToRx(rrow, x) + 1] = rrow.chars[x + 1]
    /\ (rop = "project" /\ cx = rrow.size) => rx = rrow.rsize

\* C12, witness: the end of "\ta\tb" is projected to its rsize, 9.
C12_Witness ==
  /\ rop = "project"
  /\ rrow.chars = <<TAB, Chr("a"), TAB, Chr("b")>>
  /\ cx = rrow.size
  /\ rx = rrow.rsize
  /\ rx = 9

\* The column editorRowInsertChar is to insert at, for a row of n bytes.
Clamped(at, n) == IF at < 0 \/ at > n THEN n ELSE at

\* C13: a step of editorRowInsertChar with column cx' and key lastkey' on a row
\* of n bytes leaves n + 1 bytes: those before the column as they were, the
\* key's byte at the column, those from the column on one place to the right;
\* a column outside 0..n is taken for n, the byte is appended.
C13_InsertStep ==
  rop' = "insert" =>
    LET n   == rrow.size
        col == Clamped(cx', n)
    IN /\ rrow'.size = n + 1
       /\ Len(rrow'.chars) = n + 1
       /\ \A i \in 1..col : rrow'.chars[i] = rrow.chars[i]
       /\ rrow'.chars[col + 1] = lastkey' % 256
       /\ \A i \in (col + 1)..n : rrow'.chars[i + 1] = rrow.chars[i]
       /\ (cx' < 0 \/ cx' > n) =>
            rrow'.chars = Append(rrow.chars, lastkey' % 256)

\* C13: editorRowInsertChar inserts the byte at the column, or at the end of
\* the row for a column out of range, and in no case fails.
C13_InsertShiftsOrAppends == [][C13_InsertStep]_vars

\* C13, witness: a byte inserted at column n + 5 into "ab" came last, and one
\* inserted at column 0 came first.
C13_Witness ==
  /\ rop = "insert"
  /\ rrow.size = 3
  /\ cx = 7
  /\ rrow.chars = <<Chr("a"), Chr("b"), lastkey % 256>>
  /\ lastkey = DEL_KEY

(***************************************************************************)
(* Typing a byte (Spec).                                                   *)
(***************************************************************************)
\* A step of editorInsertChar.
InsertStep == edits' = edits + 1

\* What editorInsertChar is to do with the key lastkey' at the cursor.
InsertEffect ==
  /\ pc' = "refresh"
  /\ Len(row') = IF cy = numrows THEN numrows + 1 ELSE numrows
  /\ cy' = cy
  /\ cx' = cx + 1
  /\ cy < Len(row')
  /\ cx' <= row'[cy + 1].size
  /\ LET old == IF cy = numrows THEN <<>> ELSE row[cy + 1].chars
     IN row'[cy + 1].chars
          = SubSeq(old, 1, cx) \o <<lastkey' % 256>> \o SubSeq(old, cx + 1, Len(old))
  /\ \A i \in 1..numrows : i # cy + 1 => row'[i] = row[i]

\* C14, as stated: wherever the cursor is, editorInsertChar appends an empty
\* row if cy = numrows and no row otherwise, inserts the byte into row[cy] at
\* cx, adds 1 to cx, and leaves cy and the other rows alone; afterwards
\* cy < numrows and cx <= the size of row[cy].
C14_AsStated == [][InsertStep => InsertEffect]_vars

\* C14, where it holds: in a window that leaves at least one text row.
C14_HoldsWithTextRows == [][(InsertStep /\ screenrows >= 1) => InsertEffect]_vars

(***************************************************************************)
(* Moving the cursor (Spec).  The claims are about a cursor on the         *)
(* document: 0 <= cy <= numrows, and cx within row[cy].                    *)
(***************************************************************************)
\* editorProcessKeypress has dispatched the key k to editorMoveCursor, from a
\* cursor on the document.
Moved(k) == pc = "readkey" /\ CursorValid /\ lastkey' = k /\ pc' = "refresh"

\* The length of row[y] (y counted from 0); 0 where there is no such row.
LenAt(y) == IF y >= 0 /\ y < numrows THEN row[y + 1].size ELSE 0

Stays     == cx' = cx /\ cy' = cy
LeftStep  ==
  IF cx = 0 /\ cy > 0 THEN cx' = LenAt(cy - 1) /\ cy' = cy - 1
  ELSE IF cx = 0 THEN Stays
  ELSE cx' = cx - 1 /\ cy' = cy

\* C15, as stated: LEFT at (0, k), k > 0, goes to the end of row k - 1, and at
\* (0, 0) nowhere; RIGHT at the end of a row that is not the last goes to
\* (0, k + 1); in every other case LEFT and RIGHT change cx by one and leave cy.
C15_AsStatedStep ==
  /\ Moved(ARROW_LEFT) => LeftStep
  /\ Moved(ARROW_RIGHT) =>
       IF cy + 1 < numrows /\ cx = LenAt(cy) THEN cx' = 0 /\ cy' = cy + 1
       ELSE cx' = cx + 1 /\ cy' = cy

C15_AsStated == [][C15_AsStatedStep]_vars

\* C15, amended: LEFT as stated; RIGHT inside a row adds one to cx, RIGHT at
\* the end of any row, the last one too, goes to column 0 of the line below
\* it, and RIGHT on the line after the last row goes nowhere.
C15_LeftRightStep ==
  /\ Moved(ARROW_LEFT) => LeftStep
  /\ Moved(ARROW_RIGHT) =>
       IF cy < numrows /\ cx < LenAt(cy) THEN cx' = cx + 1 /\ cy' = cy
       ELSE IF cy < numrows THEN cx' = 0 /\ cy' = cy + 1
       ELSE Stays

C15_LeftRight == [][C15_LeftRightStep]_vars

\* C15, witness: LEFT at column 0 of the line after the last row has gone to
\* the end of the last row, which is not empty.
C15_Witness ==
  /\ pc = "refresh"
  /\ lastkey = ARROW_LEFT
  /\ numrows > 0
  /\ cy = numrows - 1
  /\ cx = LenAt(cy)
  /\ cx > 0

\* RIGHT has gone to column 0 of the line below.
Wrapped == cx' = 0 /\ cy' = cy + 1

\* C16, as stated: RIGHT wraps only at the end of a row that has a row after
\* it, and at the end of the last row it leaves the cursor where it is.
C16_AsStatedStep ==
  Moved(ARROW_RIGHT) =>
    /\ Wrapped => (cx = LenAt(cy) /\ cy + 1 < numrows)
    /\ (cy = numrows - 1 /\ cx = LenAt(cy)) => Stays

C16_AsStated == [][C16_AsStatedStep]_vars

\* C16, amended: RIGHT wraps exactly when the cursor is at the end of a row,
\* whether or not a row follows; from the end of the last row it goes to
\* (0, numrows), the line after the last row, and there it stays.
C16_WrapStep ==
  Moved(ARROW_RIGHT) =>
    /\ Wrapped <=> (cy < numrows /\ cx = LenAt(cy))
    /\ (cy = numrows - 1 /\ cx = LenAt(cy)) => (cx' = 0 /\ cy' = numrows)
    /\ cy = numrows => Stays

C16_WrapsAtEveryRowEnd == [][C16_WrapStep]_vars

\* C16, witness: RIGHT at the end of the last row, not an empty one, has put
\* the cursor on the line after it.
C16_Witness ==
  /\ pc = "refresh"
  /\ lastkey = ARROW_RIGHT
  /\ numrows > 0
  /\ cy = numrows
  /\ cx = 0
  /\ LenAt(numrows - 1) > 0

Min(a, b) == IF a < b THEN a ELSE b

\* C17, step by step: UP at cy = 0 and DOWN at cy = numrows leave cy, and from
\* every other line cy changes by one; after UP and DOWN cx is the smaller of
\* cx and the length of the row reached; after any motion cx is within the
\* row reached, and 0 on the line after the last row.
C17_Step ==
  /\ Moved(ARROW_UP) =>
       /\ cy' = (IF cy = 0 THEN 0 ELSE cy - 1)
       /\ cx' = Min(cx, LenAt(cy'))
  /\ Moved(ARROW_DOWN) =>
       /\ cy' = (IF cy = numrows THEN numrows ELSE cy + 1)
       /\ cx' = Min(cx, LenAt(cy'))
  /\ \A k \in {ARROW_UP, ARROW_DOWN, ARROW_LEFT, ARROW_RIGHT} :
       Moved(k) =>
         /\ cy' >= 0 /\ cy' <= numrows
         /\ cx' >= 0 /\ cx' <= LenAt(cy')
         /\ cy' = numrows => cx' = 0

IsFrame(f, n) ==
  /\ Len(f) = 3 * n + 10
  /\ f[1] = Tok("hide")
  /\ f[2] = Tok("home")
  /\ \A y \in 0..(n - 1) :
       /\ f[3 * y + 3].t = "text"
       /\ f[3 * y + 4] = Tok("el")
       /\ f[3 * y + 5] = Tok("crlf")
  /\ f[3 * n + 3] = Tok("sgr7")
  /\ f[3 * n + 4].t = "text"
  /\ f[3 * n + 5] = Tok("sgr0")
  /\ f[3 * n + 6] = Tok("crlf")
  /\ f[3 * n + 7] = Tok("el")
  /\ f[3 * n + 8].t = "text"
  /\ f[3 * n + 9].t = "cup"
  /\ f[3 * n + 10] = Tok("show")
  /\ \A i \in 1..Len(f) : f[i] # Tok("clear")

\* The step is a refresh, and it wrote one frame for screenrows text rows.
OneFrame ==
  /\ Len(out') = 1
  /\ IsFrame(out'[1], screenrows)

\* The full-screen clear has been written by the last step only where that
\* step ended the process, by the quit key or by die.
ClearOnlyAtTheEnd ==
  (\E i \in 1..Len(out) : \E j \in 1..Len(out[i]) : out[i][j] = Tok("clear"))
    => /\ pc \in {"exited", "hung"}
       /\ Ev("clear") \in Events(log)

\* C18, as stated: every refresh emits, in one write, a frame of exactly
\* screenrows text rows in the stated order, without the full-screen clear,
\* which is written only on the quit and fatal-error paths.
C18_AsStated == [](ClearOnlyAtTheEnd) /\ [][pc = "refresh" => OneFrame]_vars

\* C18, where the window leaves a text row (screenrows >= 1): every refresh
\* emits that frame, in one write.
C18_HoldsWithTextRows ==
  [](ClearOnlyAtTheEnd) /\ [][(pc = "refresh" /\ screenrows >= 1) => OneFrame]_vars

\* C18: in a window without text rows the refreshes that write at all write
\* one frame with no text row.
C18_FrameWithoutTextRows ==
  [][(pc = "refresh" /\ screenrows < 1 /\ out' # <<>>) =>
       (Len(out') = 1 /\ IsFrame(out'[1], 0))]_vars

\* C18, a frame of a window with one text row has been written.
C18_FrameWritten ==
  /\ pc = "readkey"
  /\ screenrows = 1
  /\ Len(out) = 1
  /\ IsFrame(out[1], 1)
  /\ numrows > 0
  /\ out[1][3].s # <<>>

\* The cursor-positioning directive of a frame: the item before show-cursor.
CupOf(f) == f[Len(f) - 1]

\* The column of the cursor in the rendering: the projection of cx on
\* row[cy], and 0 on the line after the last row.
Projected == IF cy < numrows THEN editorRowCxToRx(row[cy + 1], cx) ELSE 0

\* The directive of the frame just written places the cursor at
\* (cy - rowoff + 1, Projected - coloff + 1), a cell of the text area.
CursorDirective ==
  LET d == CupOf(out[1])
  IN /\ d = Cup(cy - rowoff + 1, Projected - coloff + 1)
     /\ d.r \in 1..screenrows
     /\ d.c \in 1..screencols

\* C19, as stated: in every frame the cursor directive is
\* ESC[cy - rowoff + 1; rx - coloff + 1 H with rx the projection of the
\* current cx on row[cy] (0 at cy = numrows), and its coordinates lie in
\* 1..screenrows and 1..screencols.
C19_AsStated == (pc = "readkey" /\ Len(out) = 1) => CursorDirective

\* C19, where the window leaves a text row (screenrows >= 1): the directive
\* of every frame is the projected cursor, inside the text area.
C19_HoldsWithTextRows ==
  (pc = "readkey" /\ Len(out) = 1 /\ screenrows >= 1) => CursorDirective

\* C19, in every window: the column of the directive is the projected column
\* of a cursor on the document, inside 1..screencols.
C19_ColumnInEveryWindow ==
  (pc = "readkey" /\ Len(out) = 1 /\ CursorValid) =>
    /\ CupOf(out[1]).c = Projected - coloff + 1
    /\ CupOf(out[1]).c \in 1..screencols

\* C19, a frame written after a cursor motion across a tab: the column of the
\* directive is that of the rendering, not cx + 1.
C19_FrameAfterTab ==
  /\ pc = "readkey"
  /\ Len(out) = 1
  /\ screenrows >= 1
  /\ cy < numrows
  /\ cx > 0
  /\ Projected > cx
  /\ CursorDirective

\* The step dispatches the quit key.
QuitStep == pc = "readkey" /\ lastkey' = CTRL_Q

\* The two writes of the quit case: the full-screen clear, then cursor-home.
ScreenCleared(w) ==
  /\ Len(w) >= 2
  /\ w[1] = <<Tok("clear")>>
  /\ w[2] = <<Tok("home")>>

\* The process is over: it has exited, was killed, or hangs.
Over == pc \in {"exited", "killed", "hung"}

\* From a process that is over no step is taken: no frame, no read, no
\* change of the document.
NothingAfterTheEnd == [][~Over]_vars

\* C20, as stated: the dispatch of the quit key clears the screen, restores
\* the terminal and ends the process with status 0, the document unchanged;
\* nothing happens after it.
C20_AsStatedStep ==
  QuitStep =>
    /\ ScreenCleared(out')
    /\ term' = orig_termios
    /\ pc' = "exited"
    /\ status' = 0
    /\ row' = row

C20_AsStated == [][C20_AsStatedStep]_vars /\ NothingAfterTheEnd

\* C20, amended: the dispatch of the quit key clears the screen and calls
\* exit(0), which runs disableRawMode; where its tcsetattr succeeds the
\* terminal is restored, nothing else is written and the status is 0; where it
\* fails the terminal stays raw, "tcsetattr" is reported after a second clear,
\* and the process ends with status 1 or does not end.  The document is not
\* changed, and nothing happens after the event.
C20_QuitStep ==
  QuitStep =>
    /\ ScreenCleared(out')
    /\ row' = row
    /\ \/ /\ Ev("restored") \in Events(log')
          /\ term' = orig_termios
          /\ Len(out') = 2
          /\ pc' = "exited"
          /\ status' = 0
       \/ /\ Ev("restore failed") \in Events(log')
          /\ Perror("tcsetattr") \in Events(log')
          /\ term' = term
          /\ Len(out') = 4
          /\ \/ pc' = "exited" /\ status' = 1
             \/ pc' = "hung" /\ status' = -1

C20_QuitClearsAndExits == [][C20_QuitStep]_vars /\ NothingAfterTheEnd

\* C20, witness: the quit key, typed after an insertion, has ended the
\* process with status 0, the screen cleared, the terminal restored and the
\* inserted byte still in the document.
C20_Witness ==
  /\ pc = "exited"
  /\ lastkey = CTRL_Q
  /\ status = 0
  /\ ScreenCleared(out)
  /\ term = orig_termios
  /\ Ev("restored") \in Events(log)
  /\ edits = 1
  /\ numrows > 0

\* The step is a step of the setup (enableRawMode, initEditor, editorOpen)
\* that reports a failure.
SetupFailure ==
  /\ pc \in {"main", "initEditor", "editorOpen"}
  /\ log' # log

\* No write of w is a frame: each is one directive.
NoFrame(w) == \A i \in 1..Len(w) : Len(w[i]) = 1 /\ w[i][1].t \notin {"text", "cup"}

\* The editor is in its loop only where the setup reported nothing.
RunningAfterCleanSetup == pc \in {"refresh", "readkey"} => log = <<>>

\* C21, as stated: a failure of tcgetattr or tcsetattr in enableRawMode, of the
\* window size query or of fopen ends the process at once with a non-zero
\* exit status; no frame is rendered, no key is read, nothing is retried.
C21_AsStatedStep ==
  SetupFailure =>
    /\ pc' = "exited"
    /\ status' > 0
    /\ NoFrame(out')

C21_AsStated ==
  [](RunningAfterCleanSetup) /\ [][C21_AsStatedStep]_vars /\ NothingAfterTheEnd

\* C21, for the outcomes of the failing restoration: a setup failure is
\* reported and followed by exit(1); the process ends with status 1, or it
\* hangs in exit, and it hangs only where the exit handler's own tcsetattr
\* failed and called die again.  No frame, no key, no retry in either case.
C21_FailureStep ==
  SetupFailure =>
    /\ \E s \in {"tcgetattr", "tcsetattr", "getWindowSize", "fopen"} :
         Perror(s) \in Events(log')
    /\ \/ pc' = "exited" /\ status' = 1
       \/ /\ pc' = "hung"
          /\ Ev("restore failed") \in Events(log')
    /\ NoFrame(out')

C21_EndsOrHangs ==
  [](RunningAfterCleanSetup) /\ [][C21_FailureStep]_vars /\ NothingAfterTheEnd

\* C21, a failure of fopen has ended the process with status 1, the terminal
\* restored.
C21_FopenFailed ==
  /\ pc = "exited"
  /\ status = 1
  /\ Perror("fopen") \in Events(log)
  /\ Ev("restored") \in Events(log)
  /\ term = orig_termios

\* The step is an editorRefreshScreen that wrote its frame.
RefreshStep == pc = "refresh" /\ pc' = "readkey"

\* The text of the message bar of a frame: the item before the cursor
\* directive.
MessageOf(f) == f[Len(f) - 2].s

\* The first n bytes of the status message.
MessageFront(n) == [i \in 1..Min(Len(statusmsg), n) |-> statusmsg[i]]

\* C22, frame by frame: the message set at statusmsg_time is in the frame
\* rendered at time now if and only if it is not empty and
\* now - statusmsg_time < 5; so it is shown 4 seconds after it was set and
\* absent after 5 and after 6; what is shown is the message cut to
\* screencols.
C22_Step ==
  RefreshStep =>
    LET shown == MessageOf(out'[1])
        age   == now - statusmsg_time
    IN /\ shown # <<>> <=> (statusmsg # <<>> /\ age < 5)
       /\ (statusmsg # <<>> /\ age = 4) => shown # <<>>
       /\ age \in {5, 6} => shown = <<>>
       /\ shown # <<>> => shown = MessageFront(screencols)

\* C22: a status message is rendered while it is younger than 5 seconds, cut
\* to the width of the window, and never after.
C22_MessageShownForFiveSeconds == [][C22_Step]_vars

\* C22, witness: a frame rendered 5 seconds after the help message was set
\* has an empty message bar.
C22_Witness ==
  /\ pc = "readkey"
  /\ statusmsg = HelpMessage
  /\ statusmsg_time = 0
  /\ now = 5
  /\ Len(out) = 1
  /\ MessageOf(out[1]) = <<>>

\* C22, a frame rendered 4 seconds after the help message was set shows its
\* first screencols bytes.
C22_ShownAtFour ==
  /\ pc = "readkey"
  /\ statusmsg = HelpMessage
  /\ now = 4
  /\ screencols = 5
  /\ Len(out) = 1
  /\ MessageOf(out[1]) = Bytes("HELP:")

\* A frame is on the screen: the last refresh wrote it.
FrameOnScreen == pc = "readkey" /\ Len(out) = 1

\* The text of visible row y of a frame.
RowText(f, y) == f[3 * y + 3].s

\* The filler marker alone.
Filler == <<Chr("~")>>

\* The banner as a window of n columns shows it: cut to n columns, and
\* centred by (n - its length) / 2 columns of padding, the first of them the
\* filler marker.
BannerLine(n) ==
  LET len == Min(Len(Bytes("Kilo editor -- version 0.0.1")), n)
      pad == (n - len) \div 2
  IN (IF pad > 0 THEN Filler \o Spaces(pad - 1) ELSE <<>>)
       \o SubSeq(Bytes("Kilo editor -- version 0.0.1"), 1, len)

\* The frame f shows the banner if and only if the document is empty, and
\* then on row screenrows / 3 only, every other row being the filler marker.
BannerOnlyOnEmptyDocument(f) ==
  /\ (numrows = 0) <=>
       (\E y \in 0..(screenrows - 1) : RowText(f, y) = BannerLine(screencols))
  /\ numrows = 0 =>
       \A y \in 0..(screenrows - 1) :
         RowText(f, y) = (IF y = screenrows \div 3 THEN BannerLine(screencols)
                          ELSE Filler)

\* C23, as stated: a frame contains the version banner if and only if the
\* document is empty; the banner is then on visible row screenrows / 3,
\* centred and cut to screencols, and every other visible row is the filler
\* marker; no frame of a document with a row contains it.
C23_AsStated == FrameOnScreen => BannerOnlyOnEmptyDocument(out[1])

\* C23, where the window leaves a text row (screenrows >= 1): the banner is
\* in the frame exactly when the document is empty, once, centred and cut.
C23_HoldsWithTextRows ==
  (FrameOnScreen /\ screenrows >= 1) => BannerOnlyOnEmptyDocument(out[1])

\* C23, a frame of an empty document in a window of 3 text rows and 32
\* columns: the banner is on the second row behind "~" and a space.
C23_BannerCentred ==
  /\ FrameOnScreen
  /\ numrows = 0
  /\ screenrows = 3
  /\ screencols = 32
  /\ RowText(out[1], 0) = Filler
  /\ RowText(out[1], 1) = Bytes("~ Kilo editor -- version 0.0.1")
  /\ RowText(out[1], 2) = Filler

\* The raw bytes of the rows of the document.
RawLines == [i \in 1..numrows |-> row[i].chars]

\* The key events END, DOWN, END have been dispatched, in this order and no
\* other, on the document of the lines "abc", "<TAB>x", "".
EndDownEnd ==
  /\ typed = <<END_KEY, ARROW_DOWN, END_KEY>>
  /\ RawLines = <<Bytes("abc"), <<TAB, Chr("x")>>, <<>>>>

\* C24: from the cursor (0, 0) on the document "abc", "<TAB>x", "" the keys
\* END, DOWN, END leave the cursor on line 2 (cy = 1) at cx = 2, the raw
\* length of that line, and the scroll that follows gives rx = 5.
C24_EndDownEnd ==
  /\ (EndDownEnd /\ pc \in {"refresh", "readkey"}) =>
       /\ cy = 1
       /\ cx = 2
       /\ cx = Len(RawLines[2])
  /\ (EndDownEnd /\ pc = "readkey") => rx = 5

\* C24, witness: the three keys have been dispatched and the screen
\* refreshed, the cursor standing behind the tab and the x.
C24_Witness ==
  /\ EndDownEnd
  /\ pc = "readkey"
  /\ stream = <<>>
  /\ cx = 2
  /\ cy = 1
  /\ rx = 5

\* The places of the newline bytes of a file.
Newlines(bytes) == {j \in 1..Len(bytes) : bytes[j] = Chr("\n")}

\* The place of the i-th newline; 0 for i = 0, and one past the end of the
\* file where it has fewer.
NewlineAt(bytes, i) ==
  IF i = 0 THEN 0
  ELSE IF i > Cardinality(Newlines(bytes)) THEN Len(bytes) + 1
  ELSE CHOOSE j \in Newlines(bytes) :
         Cardinality({k \in Newlines(bytes) : k <= j}) = i

\* The lines of a file: one for each newline, and one more for what follows
\* the last newline, if anything does.
LineCount(bytes) ==
  Cardinality(Newlines(bytes)) +
    (IF bytes # <<>> /\ bytes[Len(bytes)] # Chr("\n") THEN 1 ELSE 0)

\* The i-th line, without its newline.
LineOf(bytes, i) ==
  SubSeq(bytes, NewlineAt(bytes, i - 1) + 1, NewlineAt(bytes, i) - 1)

\* A line without the carriage returns and newlines at its end.
Chomped(line) ==
  LET keep == {j \in 1..Len(line) : line[j] \notin {Chr("\r"), Chr("\n")}}
  IN SubSeq(line, 1, IF keep = {} THEN 0
                     ELSE CHOOSE j \in keep : \A k \in keep : k <= j)

\* editorOpen has returned.
Loaded == pc = "setStatus" /\ argc = 2

\* C25: after loading, the document has one row for each line of the file,
\* in file order; the raw bytes of a row are its line without the carriage
\* returns and newlines at its end, its rendering is computed, and the
\* cursor is at (0, 0).
C25_RowsAreTheLines ==
  Loaded =>
    /\ numrows = LineCount(file.bytes)
    /\ \A i \in 1..numrows :
         /\ row[i].chars = Chomped(LineOf(file.bytes, i))
         /\ row[i].size = Len(row[i].chars)
         /\ row[i].render = TabExpand(row[i].chars)
         /\ row[i].rsize = Len(row[i].render)
    /\ cx = 0
    /\ cy = 0

\* C25, witness: the file "\ra\r\n" has been loaded as the one row "\ra":
\* the carriage return inside the line is kept, the one at its end is not.
C25_Witness ==
  /\ Loaded
  /\ file.bytes = <<Chr("\r"), Chr("a"), Chr("\r"), Chr("\n")>>
  /\ numrows = 1
  /\ row[1].chars = <<Chr("\r"), Chr("a")>>
  /\ row[1].render = row[1].chars
  /\ cx = 0
  /\ cy = 0

\* The keys that move the cursor.
MotionKeys ==
  {ARROW_UP, ARROW_DOWN, ARROW_LEFT, ARROW_RIGHT, HOME_KEY, END_KEY, PAGE_UP,
   PAGE_DOWN}

\* The step dispatches key k.
Dispatched(k) == pc = "readkey" /\ lastkey' = k /\ pc' # "readkey"

\* Row r2 is row r1, or row r1 with bytes inserted.
RECURSIVE Embeds(_, _)
Embeds(s2, s1) ==
  IF s1 = <<>> THEN TRUE
  ELSE IF s2 = <<>> THEN FALSE
  ELSE IF Head(s2) = Head(s1) THEN Embeds(Tail(s2), Tail(s1))
  ELSE Embeds(Tail(s2), s1)

\* C26, step by step: a motion key leaves the document as it is; once the
\* file is loaded the document changes only in the dispatch of a key that is
\* inserted; no step removes a row, shortens one or moves one: row i stays
\* row i, keeping its bytes in their order.
C26_Step ==
  /\ \A k \in MotionKeys : Dispatched(k) => row' = row
  /\ (Running /\ row' # row) =>
       /\ pc = "readkey"
       /\ lastkey' \notin MotionKeys \cup {CTRL_Q}
       /\ edits' = edits + 1
  /\ Running =>
       /\ Len(row') >= numrows
       /\ \A i \in 1..numrows :
            /\ row'[i].size >= row[i].size
            /\ Embeds(row'[i].chars, row[i].chars)

\* C26: only editorInsertChar changes the document after loading, and the
\* document only grows.
C26_OnlyInsertChangesTheDocument == [][C26_Step]_vars

\* C26, witness: after an insertion at the end of a loaded document, which
\* appended a fourth row, a motion key has been dispatched.
C26_Witness ==
  /\ pc = "refresh"
  /\ lastkey = ARROW_UP
  /\ edits = 1
  /\ numrows = 4
  /\ row[4].size = 1
  /\ row[1].chars = Bytes("abc")

Max(a, b) == IF a > b THEN a ELSE b

\* The smallest number of a finite, non-empty set.
Least(S) == CHOOSE n \in S : \A m \in S : n <= m

\* The line PAGE_UP (up = TRUE) or PAGE_DOWN jumps to, and the line the
\* cursor is on after j of the single steps that follow.
PageJump(up) == IF up THEN rowoff ELSE Min(rowoff + screenrows - 1, numrows)
PageLine(up, j) ==
  IF up THEN Max(0, PageJump(up) - j) ELSE Min(numrows, PageJump(up) + j)

\* What the claim says of a page key: where cy ends, and that cx ends as the
\* smallest of the old cx and the sizes of the rows the cursor is on after
\* each single step.
PageEffect(up) ==
  /\ cy' = (IF up THEN Max(0, rowoff - screenrows)
            ELSE Min(numrows, rowoff + 2 * screenrows - 1))
  /\ cx' = Least({cx} \cup {LenAt(PageLine(up, j)) : j \in 1..screenrows})

\* C27, as stated: PAGE_UP sets cy to max(0, rowoff - screenrows), PAGE_DOWN
\* to min(numrows, rowoff + 2 * screenrows - 1), and cx becomes the minimum
\* of the old cx and the length of every row the cursor is on after each of
\* the screenrows single steps.
C27_AsStatedStep ==
  /\ Dispatched(PAGE_UP) => (pc' = "refresh" /\ PageEffect(TRUE))
  /\ Dispatched(PAGE_DOWN) => (pc' = "refresh" /\ PageEffect(FALSE))

C27_AsStated == [][C27_AsStatedStep]_vars

\* C27, where the count of single steps is not negative (screenrows >= 0):
\* the page keys do what the claim says.
C27_HoldsStep ==
  screenrows >= 0 => C27_AsStatedStep

C27_HoldsWithoutNegativeCount == [][C27_HoldsStep]_vars

\* C27, PAGE_DOWN in a window of one text row has taken the cursor from the
\* end of "abc" to the end of "<TAB>x", cutting cx to 2.
C27_PagedDown ==
  /\ pc = "refresh"
  /\ lastkey = PAGE_DOWN
  /\ screenrows = 1
  /\ cy = 1
  /\ cx = 2
  /\ LenAt(0) = 3
  /\ LenAt(1) = 2

\* The offsets and the rendered column are what they were.
ViewKept == rx' = rx /\ rowoff' = rowoff /\ coloff' = coloff

\* C28, step by step: the dispatch of a key, whatever the key, leaves rx,
\* rowoff and coloff alone; a refresh brings the cursor into the window (for
\* a window of at least one row and one column) and composes its frame from
\* the offsets it has just computed.
C28_Step ==
  /\ pc = "readkey" => ViewKept
  /\ RefreshStep =>
       /\ CupOf(out'[1]) = Cup(cy - rowoff' + 1, rx' - coloff' + 1)
       /\ (screenrows >= 1 /\ CursorValid) =>
            /\ rowoff' <= cy /\ cy < rowoff' + screenrows
            /\ coloff' <= rx' /\ rx' < coloff' + screencols

\* C28: editorScroll runs in editorRefreshScreen, before the frame is
\* composed, and nowhere in the dispatch of a key.
C28_ScrollOnlyInRefresh == [][C28_Step]_vars

\* C28, witness: a refresh after a cursor motion has moved both offsets, and
\* the frame on the screen is composed from the new ones.
C28_Witness ==
  /\ FrameOnScreen
  /\ screenrows >= 1
  /\ rowoff > 0
  /\ coloff > 0
  /\ CupOf(out[1]) = Cup(cy - rowoff + 1, rx - coloff + 1)

\* C29, step by step: a refresh changes nothing of the editor but rx, rowoff
\* and coloff: not the status message, its time, the document, the file
\* name, the window size, cx or cy; and the status message and its time
\* change in no step but the one of editorSetStatusMessage.
C29_Step ==
  /\ pc = "refresh" =>
       /\ statusmsg' = statusmsg
       /\ statusmsg_time' = statusmsg_time
       /\ row' = row
       /\ filename' = filename
       /\ screenrows' = screenrows /\ screencols' = screencols
       /\ cx' = cx /\ cy' = cy
  /\ (statusmsg' # statusmsg \/ statusmsg_time' # statusmsg_time) =>
       /\ pc = "setStatus"
       /\ Len(statusmsg') <= 79
       /\ statusmsg_time' = now

\* C29: rendering never changes the status message or the document; the
\* message is set by editorSetStatusMessage only.
C29_RefreshKeepsTheEditor == [][C29_Step]_vars

\* C29, witness: a frame has been written whose refresh moved rx and coloff,
\* and the message set before the loop, the inserted byte and the cursor are
\* still there.
C29_Witness ==
  /\ FrameOnScreen
  /\ statusmsg = HelpMessage
  /\ edits = 1
  /\ cx > 0
  /\ rx > cx
  /\ coloff > 0
  /\ MessageOf(out[1]) # <<>>

\* The part of the rendering of row r a window of n columns shows from
\* column c on: len = min(n, max(0, rsize - c)) bytes.
Slice(r, c, n) ==
  [i \in 1..Min(n, Max(0, r.rsize - c)) |-> r.render[c + i]]

\* The visible row y of the frame f shows its row of the document.
ShowsRow(f, y) ==
  LET r == row[y + rowoff + 1]
  IN /\ RowText(f, y) = Slice(r, coloff, screencols)
     /\ coloff >= r.rsize => RowText(f, y) = <<>>

\* C30, as stated: every visible row y with y + rowoff < numrows shows the
\* slice of its row from coloff on, at most screencols bytes, nothing when
\* coloff is not less than the rendered length; every visible row with
\* y + rowoff >= numrows shows the filler marker.
C30_AsStated ==
  FrameOnScreen =>
    \A y \in 0..(screenrows - 1) :
      IF y + rowoff < numrows THEN ShowsRow(out[1], y)
      ELSE RowText(out[1], y) = Filler

\* C30, amended: the rows of the document are shown by their slices, and the
\* visible rows past the end of the document show the filler marker, except
\* row screenrows / 3 of an empty document, which shows the banner.
C30_SlicesFillerAndBanner ==
  FrameOnScreen =>
    \A y \in 0..(screenrows - 1) :
      IF y + rowoff < numrows THEN ShowsRow(out[1], y)
      ELSE IF numrows = 0 /\ y = screenrows \div 3
           THEN RowText(out[1], y) = BannerLine(screencols)
           ELSE RowText(out[1], y) = Filler

\* C30, witness: in a window of 3 columns scrolled to column 3, the row
\* "abc" is shown as an empty line, the row "<TAB>x" as " x", and the line
\* after the last row as the filler marker.
C30_Witness ==
  /\ FrameOnScreen
  /\ screencols = 3
  /\ screenrows = 3
  /\ rowoff = 1
  /\ coloff = 3
  /\ numrows = 3
  /\ RowText(out[1], 0) = <<Chr(" "), Chr("x")>>
  /\ RowText(out[1], 1) = <<>>
  /\ RowText(out[1], 2) = Filler

\* The text of the status bar of a frame, between reverse video on and off.
StatusOf(f) == f[Len(f) - 6].s

\* The status bar of a frame is bracketed by reverse video on and off.
StatusBracketed(f) == f[Len(f) - 7] = Tok("sgr7") /\ f[Len(f) - 5] = Tok("sgr0")

\* The left text: the file name cut to 20 characters, or the placeholder,
\* and the line count.
LeftText ==
  (IF filename = <<>> THEN Bytes("[No Name]")
   ELSE SubSeq(filename, 1, Min(Len(filename), 20)))
    \o Bytes(" - ") \o Decimal(numrows) \o Bytes(" lines")

\* The right text: "<cy+1>/<numrows>".
RightText == Decimal(cy + 1) \o Bytes("/") \o Decimal(numrows)

\* s begins with p; s ends with p.
BeginsWith(s, p) == Len(p) <= Len(s) /\ SubSeq(s, 1, Len(p)) = p
EndsWith(s, p) == Len(p) <= Len(s) /\ SubSeq(s, Len(s) - Len(p) + 1, Len(s)) = p

\* C31, as stated: in every frame the status bar text between reverse video
\* on and off is screencols characters wide, begins with the left text and
\* ends with the right text "<cy+1>/<numrows>" at the last column.
C31_AsStated ==
  FrameOnScreen =>
    /\ StatusBracketed(out[1])
    /\ Len(StatusOf(out[1])) = screencols
    /\ BeginsWith(StatusOf(out[1]), LeftText)
    /\ EndsWith(StatusOf(out[1]), RightText)

\* C31, amended: the status bar text is screencols characters wide in every
\* frame; where the left and the right text fit together it is the left
\* text, spaces, and the right text at the last column; where they do not
\* it is the left text followed by spaces, cut to screencols, without the
\* right text.
C31_RightTextWhereItFits ==
  FrameOnScreen =>
    /\ StatusBracketed(out[1])
    /\ Len(StatusOf(out[1])) = screencols
    /\ StatusOf(out[1]) =
         (IF Len(LeftText) + Len(RightText) <= screencols
          THEN LeftText
                 \o Spaces(screencols - Len(LeftText) - Len(RightText))
                 \o RightText
          ELSE SubSeq(LeftText \o Spaces(screencols), 1, screencols))

\* C31, witness: a window of 34 columns on the second line of the file of
\* the long name shows the name cut to 20 characters, the count, one space
\* and "2/3".
C31_Witness ==
  /\ FrameOnScreen
  /\ filename = FileLong.name
  /\ screencols = 34
  /\ cy = 1
  /\ StatusOf(out[1]) = Bytes("a-file-of-22-bytes.t - 3 lines 2/3")

\* C31, a window of 32 columns on the same file: the right text is absent.
C31_RightTextDropped ==
  /\ FrameOnScreen
  /\ filename = FileLong.name
  /\ screencols = 32
  /\ StatusOf(out[1]) = Bytes("a-file-of-22-bytes.t - 3 lines  ")

MaxReport == 80   \* the largest number of a cursor position report

\* The bytes of a reply up to its 'R', or up to where the bytes end.
RECURSIVE ReplyBody(_)
ReplyBody(reply) ==
  IF reply = <<>> \/ Head(reply).n # 1 \/ Head(reply).c = Chr("R") THEN <<>>
  ELSE <<Head(reply).c>> \o ReplyBody(Tail(reply))

\* The sizes a reply of the form ESC [ rows ; cols R reports: none if it does
\* not start with ESC [ or two integers do not follow.
ReportedSizes(reply) ==
  LET body == ReplyBody(reply)
  IN {sz \in [rows : 0..MaxReport, cols : 0..MaxReport] :
        LET t == <<ESC, Chr("[")>> \o Decimal(sz.rows) \o <<Chr(";")>>
                   \o Decimal(sz.cols)
        IN /\ BeginsWith(body, t)
           /\ (Len(body) > Len(t) => ~IsDigit(body[Len(t) + 1]))}

\* The step is initEditor.
InitEditorStep == pc = "initEditor" /\ pc' # "initEditor"

\* C32, step by step: the primary query has failed when ioctl returns -1 or
\* gives zero columns; the fallback has failed when one of its writes is
\* short or the reply reports no size; initEditor is fatal exactly when both
\* have failed, and reports "getWindowSize"; the fallback is entered (the
\* cursor moved to the corner, then the position asked for) only when the
\* primary query failed; on success the size is the one ioctl gave or the
\* one the reply reports.
C32_Step ==
  InitEditorStep =>
    LET primaryFailed  == winq.io.ret = -1 \/ winq.io.ws_col = 0
        reported       == ReportedSizes(stream)
        fallbackFailed == winq.w1 # 12 \/ winq.w2 # 4 \/ reported = {}
        fatal          == pc' # "editorOpen"
    IN /\ fatal <=> (primaryFailed /\ fallbackFailed)
       /\ fatal => Perror("getWindowSize") \in Events(log')
       /\ ~primaryFailed =>
            /\ out' = <<>>
            /\ screenrows' = winq.io.ws_row - 2
            /\ screencols' = winq.io.ws_col
       /\ (primaryFailed /\ winq.w1 = 12) => out'[1] = <<Tok("corner")>>
       /\ (primaryFailed /\ winq.w1 = 12 /\ winq.w2 = 4) => out'[2] = <<Tok("dsr")>>
       /\ (primaryFailed /\ ~fatal) =>
            /\ out' = << <<Tok("corner")>>, <<Tok("dsr")>> >>
            /\ \E sz \in reported :
                 screenrows' = sz.rows - 2 /\ screencols' = sz.cols

\* C32: the window size query falls back to the cursor position report when
\* ioctl fails or gives zero columns, initialisation is fatal only when the
\* fallback fails too, and the size that was reported is the one used.
C32_FallbackOnFailedQuery == [][C32_Step]_vars

\* C32, witness: ioctl gave zero columns, the terminal replied ESC [ 24 ; 80 R
\* to the fallback, and the editor has 22 text rows of 80 columns.
C32_Witness ==
  /\ pc = "editorOpen"
  /\ winq.io.ret = 0 /\ winq.io.ws_col = 0
  /\ ReplyBody(stream) = <<ESC>> \o Bytes("[24;80")
  /\ out = << <<Tok("corner")>>, <<Tok("dsr")>> >>
  /\ screenrows = 24 - 2
  /\ screencols = 80

\* C32, the fallback failed too: ioctl failed, the reply does not start with
\* ESC [, and the process has ended with "getWindowSize".
C32_FallbackFailed ==
  /\ pc = "exited"
  /\ winq.io.ret = -1
  /\ winq.w1 = 12 /\ winq.w2 = 4
  /\ ReplyBody(stream) = <<ESC>> \o Bytes("O3;2")
  /\ Perror("getWindowSize") \in Events(log)
  /\ status = 1

\* The first read of editorReadKey is about to time out.
FirstReadTimesOut == pc = "readkey" /\ stream # <<>> /\ Head(stream) = Timeout

\* C33, step by step: where the first read of editorReadKey times out, the
\* step takes that read off the input and nothing else: the process does not
\* end and logs no error, no key event is delivered or dispatched, nothing is
\* written, the cursor, the document and the offsets stay, and the process
\* is still in editorReadKey, so that no frame is rendered before a byte
\* arrives.
C33_Step ==
  FirstReadTimesOut =>
    /\ stream' = Tail(stream)
    /\ pc' = "readkey"
    /\ UNCHANGED <<log, status, term>>
    /\ UNCHANGED <<typed, kres, kin, lastkey>>
    /\ UNCHANGED out
    /\ UNCHANGED <<cx, cy, rx, rowoff, coloff, row>>

\* C33: a read timeout on the first byte of a key is no error and no key
\* event; editorReadKey reads again, and until a byte arrives no frame is
\* rendered and the cursor, the document and the offsets do not change.
C33_TimeoutIsRetried == [][C33_Step]_vars

\* C33, witness: after a timeout, END and a second timeout the read has been
\* made again twice; END is the only key dispatched, the frame on the screen
\* is the one rendered after it, and the input has run out.
C33_Witness ==
  /\ pc = "readkey"
  /\ typed = <<END_KEY>>
  /\ kin = Script(<<ESC, Chr("["), Chr("F")>>) \o <<Timeout>>
  /\ stream = <<>>
  /\ Len(out) = 1
  /\ cx = 3
  /\ status = -1

\* C34: in every state a scroll has left (the process waits for a key, the
\* frame rendered), 0 <= rowoff <= cy and 0 <= coloff <= rx, so that
\* rowoff <= numrows and the index that slices a rendered row is never
\* negative, for screenrows >= 1 and screencols >= 1.
C34_OffsetsBehindTheCursor ==
  (pc = "readkey" /\ screenrows >= 1 /\ screencols >= 1) =>
    /\ 0 <= rowoff /\ rowoff <= cy
    /\ 0 <= coloff /\ coloff <= rx
    /\ rowoff <= numrows

\* C34, witness: a frame of a window of one text row, scrolled down and to
\* the right up to the cursor.
C34_Witness ==
  /\ FrameOnScreen
  /\ screenrows = 1
  /\ rowoff = 1 /\ cy = 1
  /\ coloff >= 1 /\ coloff <= rx

\* C34, between a key and the scroll that follows it the cursor can be above
\* the window: ARROW_UP has moved it to line 0 of a window scrolled to line 1.
C34_AboveTheWindowBeforeScroll ==
  /\ pc = "refresh"
  /\ screenrows = 1 /\ screencols >= 1
  /\ cy = 0 /\ rowoff = 1

\* What editorScroll gives in this state, g standing for what it reads past
\* the row's buffer where the cursor is out of the row.
ScrollOnce(g) == editorScrollG(row, View, screenrows, screencols, g)

\* What a second editorScroll gives after the first, on the same memory.
ScrollTwice(g) ==
  LET v1 == ScrollOnce(g)
  IN editorScrollG(row, [cx |-> cx, cy |-> cy, rx |-> v1.rx,
                         rowoff |-> v1.rowoff, coloff |-> v1.coloff],
                   screenrows, screencols, g)

\* The cursor, at the rendered column c, is inside the window.
InsideWindow(c) ==
  /\ rowoff <= cy /\ cy < rowoff + screenrows
  /\ coloff <= c /\ c < coloff + screencols

\* C35: in every state, editorScroll applied twice gives the rx, rowoff and
\* coloff it gives applied once, and where the cursor (at the rendered column
\* of cx) is inside the window it leaves rowoff and coloff as they are.
C35_ScrollIdempotentAndMinimal ==
  \A g \in GarbageBytes \cup {0} :
    /\ ScrollTwice(g) = ScrollOnce(g)
    /\ InsideWindow(ScrollOnce(g).rx) =>
         (ScrollOnce(g).rowoff = rowoff /\ ScrollOnce(g).coloff = coloff)

\* C35, witness: before a refresh, the cursor on line 2 below a window of 2
\* text rows at line 0: editorScroll moves the window to line 1, and a second
\* editorScroll leaves it there.
C35_Witness ==
  /\ pc = "refresh"
  /\ screenrows = 2
  /\ cy = 2 /\ rowoff = 0
  /\ ScrollOnce(0).rowoff = 1
  /\ ScrollTwice(0).rowoff = 1

\* C35, the cursor inside the window before a refresh: on line 1 of a window
\* of 2 text rows at line 0, at a column the window shows.
C35_InsideBeforeRefresh ==
  /\ pc = "refresh"
  /\ screenrows = 2
  /\ cy = 1 /\ rowoff = 0
  /\ cx = 1
  /\ InsideWindow(ScrollOnce(0).rx)
  /\ ScrollOnce(0).rowoff = 0

\* The bytes of the document.
RECURSIVE SizeSum(_)
SizeSum(rows) == IF rows = <<>> THEN 0 ELSE Head(rows).size + SizeSum(Tail(rows))

\* The step dispatches a key that editorProcessKeypress has no case for.
OtherKeyDispatched ==
  /\ pc = "readkey"
  /\ pc' # "readkey"
  /\ lastkey' # NoKey
  /\ lastkey' \notin MotionKeys \cup {CTRL_Q}

\* The key lastkey' is inserted as one byte, its value modulo 256, at the
\* cursor: the document has one byte more.
InsertedAsOneByte ==
  /\ InsertStep
  /\ InsertEffect
  /\ SizeSum(row') = SizeSum(row) + 1
  /\ row'[cy + 1].chars[cx + 1] = lastkey' % 256
  /\ lastkey' = DEL_KEY => row'[cy + 1].chars[cx + 1] = 236
  /\ lastkey' = ESC => row'[cy + 1].chars[cx + 1] = 27

\* C36, as stated: every key event other than the quit key, the arrows, HOME,
\* END, PAGE_UP and PAGE_DOWN is dispatched to editorInsertChar and inserts
\* exactly one byte, the value of the event modulo 256; DELETE (1004) adds
\* the byte 236 to the document.
C36_AsStated == [][OtherKeyDispatched => InsertedAsOneByte]_vars

\* C36, where it holds: from a cursor on the document (0 <= cy <= numrows, cx
\* within row[cy]) every such key inserts its value modulo 256 as one byte.
C36_HoldsOnTheDocument ==
  [][(OtherKeyDispatched /\ CursorValid) => InsertedAsOneByte]_vars

\* C36, DELETE typed at the start of "abc": the first row is byte 236 and
\* "abc", and the cursor is behind the byte.
C36_DeleteInserted ==
  /\ lastkey = DEL_KEY
  /\ pc = "refresh"
  /\ numrows = 3
  /\ row[1].chars = <<236>> \o Bytes("abc")
  /\ cx = 1 /\ cy = 0

\* C36, ESC typed alone (ESC, then a read that times out): byte 27 is in the
\* document before the cursor.
C36_EscapeInserted ==
  /\ lastkey = ESC
  /\ kin = <<Byte(ESC), Timeout>>
  /\ pc = "refresh"
  /\ row[cy + 1].chars[cx] = 27

\* C36, ENTER typed: byte 13 is in the document before the cursor.
C36_EnterInserted ==
  /\ lastkey = Chr("\r")
  /\ pc = "refresh"
  /\ row[cy + 1].chars[cx] = 13

\* C36, the cursor is off the document when a key that is inserted arrives:
\* the process is killed, or writes outside the document.
C36_InsertOffTheDocument ==
  /\ lastkey \in {DEL_KEY, TAB, Chr("a")}
  /\ edits = 1
  /\ numrows = 0
  /\ cy >= 1

\* The follow-up bytes a call reads after the ESC at the head of s before it
\* gives up: two, a third after '[' and a digit, fewer where a read gives no
\* byte.
EscapeFollowUps(s) ==
  IF Rd(s, 2).n # 1 THEN 0
  ELSE IF Rd(s, 3).n # 1 THEN 1
  ELSE IF Rd(s, 2).c = Chr("[") /\ IsDigit(Rd(s, 3).c) /\ Rd(s, 4).n = 1 THEN 3
  ELSE 2

\* The last call returned ESCAPE for an ESC followed by bytes that complete
\* no recognised sequence, after reading at least one of them.
BareEscapeAfterBytes ==
  /\ Returned
  /\ IsByte(kin[1], ESC)
  /\ kres.key = ESC
  /\ EscapeFollowUps(kin) \in 1..SeqLen

\* C37, in each state: the k follow-up bytes of such a call are taken from
\* the input, and no byte after them is.
C37_FollowUpsConsumed ==
  BareEscapeAfterBytes =>
    /\ kres.reads >= 1 + EscapeFollowUps(kin)
    /\ OnlyTaken(1 + EscapeFollowUps(kin))

\* C37, from call to call: the next call starts at the first byte after the
\* k follow-up bytes, so none of them is delivered as a key event, and,
\* unless that byte is ESC, it is the key the call returns.
C37_NextCallStartsAfterThem ==
  (BareEscapeAfterBytes /\ kres'.nth = kres.nth + 1) =>
    \E j \in (EscapeFollowUps(kin) + 2)..Len(kin) :
      /\ kin' = SubSeq(kin, j, Len(kin))
      /\ \A i \in (EscapeFollowUps(kin) + 2)..(j - 1) : kin[i].n # 1
      /\ kin'[1].c # ESC =>
           (ToByte(kres'.key) = kin[j].c /\ kres'.reads = 1)

\* C37: the bytes read after ESC that complete no recognised sequence are
\* consumed and discarded, and the bytes of a longer sequence that were not
\* read are delivered afterwards as key events of their own.
C37_UnrecognisedBytesDiscarded ==
  [](C37_FollowUpsConsumed) /\ [][C37_NextCallStartsAfterThem]_vars

\* C37, witness: of ESC [ 1 ; 5 C the first call took ESC [ 1 ; and returned
\* ESCAPE, the second returned '5', and the third has returned 'C'.
C37_Witness ==
  /\ Returned
  /\ kres.nth = 3
  /\ kin = Script(<<Chr("C")>>)
  /\ kres.key = Chr("C")
  /\ stream = <<>>

\* C37, of ESC ESC [ A the first call took ESC ESC [ and returned ESCAPE, and
\* the second has returned 'A'.
C37_EscEscBracketA ==
  /\ Returned
  /\ kres.nth = 2
  /\ kin = Script(<<Chr("A")>>)
  /\ kres.key = Chr("A")
  /\ stream = <<>>

\* C37, the first call on ESC [ 1 ; 5 C: ESCAPE after four reads, "5C" left.
C37_EscapeThenFiveC ==
  /\ BareEscapeAfterBytes
  /\ kin = Script(<<ESC, Chr("["), Chr("1"), Chr(";"), Chr("5"), Chr("C")>>)
  /\ EscapeFollowUps(kin) = 3
  /\ stream = Script(<<Chr("5"), Chr("C")>>)

\* C38, as stated: once initialisation has succeeded and the editor runs,
\* screenrows (the height of the window less the 2 lines of the bars) is at
\* least 1 and screencols is at least 1, whatever size the query reported.
C38_AsStated ==
  pc \in {"refresh", "readkey"} => (screenrows >= 1 /\ screencols >= 1)

\* C38, what initEditor does: its step leaves screenrows 2 below the rows the
\* query gave and screencols at the columns it gave, with no test of either;
\* the query counts as failed for zero columns only where ioctl reports them.
C38_SizeTakenUnchecked ==
  [][(InitEditorStep /\ pc' = "editorOpen") =>
       LET ws == getWindowSize(winq.io, winq.w1, winq.w2, stream)
       IN /\ ws.ret = 0
          /\ screenrows' = ws.rows - 2
          /\ screencols' = ws.cols]_vars

\* C38, a window of 1 row reported by ioctl: the editor runs with
\* screenrows = -1.
C38_RunsWithoutTextRows ==
  /\ pc = "readkey"
  /\ screenrows = 0 - 1
  /\ screencols >= 1

\* C38, the reply ESC [ 3 ; 0 R to the fallback: the editor is about to enter
\* its loop with screencols = 0.
C38_RunsWithoutColumns ==
  /\ pc = "refresh"
  /\ winq.io.ret = 0 - 1
  /\ screenrows = 1
  /\ screencols = 0

====
